---------------------------- MODULE Spec2Model ----------------------------
(***************************************************************************)
(* A model of getlantern/slipstream: the DNS tunnel codec (pkg/dns), the   *)
(* bidirectional relay and its callers (pkg/proxy) and the stream adapters *)
(* (pkg/transport).                                                        *)
(*                                                                         *)
(* Text is modelled as a sequence of ASCII codes, a payload as a sequence  *)
(* of bytes (0..255), so that base32, case folding, label splitting and    *)
(* suffix matching are computed and not assumed.                           *)
(***************************************************************************)
EXTENDS Integers, Sequences, FiniteSets, TLC

VARIABLES
    \* ---- codec harness (pkg/dns) ----
    data,        \* the payload handed to the codec
    domain,      \* the tunnel domain
    encoded,     \* result of EncodeSubdomain(data)
    decoded,     \* result of DecodeSubdomain(encoded)
    query,       \* result of CreateQuery(data, domain)
    queryData,   \* result of ParseQueryData(query, domain)
    response,    \* result of CreateResponse(query, data)
    responseData,\* result of ParseResponseData(response)
    rxMsg,       \* a message as it arrives from the peer
    rxQueryData, \* result of ParseQueryData(rxMsg, domain)
    rxResponseData, \* result of ParseResponseData(rxMsg)
    domainLens,  \* two domain name lengths, the first not above the second
    maxPayloads, \* results of CalculateMaxPayloadSize for the two lengths
    \* ---- relay (pkg/proxy): BiDirectionalCopy and its caller ----
    callerPc,    \* position of Server.handleStream / ServerProxy.HandleStream
    relayPc,     \* position of BiDirectionalCopy
    copyPc,      \* position of each copy goroutine
    copyErr,     \* the error io.Copy returned in each copy goroutine
    errChan,     \* the buffered channel of capacity 2
    err1,        \* first value received from errChan
    err2,        \* second value received from errChan
    relayResult, \* value returned by BiDirectionalCopy
    reported,    \* the copy goroutines in the order they sent on errChan (history)
    endpoint,    \* the two endpoints: inbound side, outbound side, Close calls
    \* ---- stream adapters (pkg/transport) ----
    adapters,    \* per stream: the client adapter and the server adapter, once created
    wire,        \* per substrate stream and direction: bytes written, not yet arrived
    rcvBuf,      \* per substrate stream and direction: bytes arrived, not yet read
    sent,        \* per stream and direction: payloads given to the adapter's Write (history)
    reads,       \* per stream and direction: the outcomes of the adapter's Reads (history)
    \* ---- the client and the server process (cmd, pkg/proxy, pkg/transport) ----
    ctxDone,     \* per process: cancel() of the process-wide context has been called
    mainPc,      \* per process: position of runClient / runServer
    loopPc,      \* position of TCPProxy.Listen ("tcp") and of Server.Listen ("quic")
    listener,    \* the TCP listener of the client, the QUIC listener of the server
    pListener,   \* the field TCPProxy.listener
    wg,          \* the counter of TCPProxy.wg
    offered,     \* per listener: incoming connections not yet accepted
    logged,      \* per accept loop: accept errors logged so far
    srvConns,    \* server: per accepted connection, Server.handleConnection and its streams
    clientConn,  \* client: the QUIC connection Client.conn
    wrote,       \* per stream and direction: the outcome of the adapter's last Write
    mu,          \* Client.mu: the writer that holds it, the number of readers
    calls,       \* per calling goroutine: its call of Connect, OpenStream or Close
    handlers     \* server: per accepted stream, Server.handleStream and its relay

rxVars     == <<rxMsg, rxQueryData, rxResponseData>>
sizeVars   == <<domainLens, maxPayloads>>
codecVars  == <<data, domain, encoded, decoded, query, queryData, response, responseData,
               rxVars, sizeVars>>
relayVars  == <<callerPc, relayPc, copyPc, copyErr, errChan, err1, err2, relayResult,
               reported, endpoint>>
streamVars == <<adapters, wire, rcvBuf, sent, reads, wrote>>
procVars   == <<ctxDone, mainPc, loopPc, listener, pListener, wg, offered, logged,
               srvConns, clientConn>>
lockVars   == <<mu, calls>>
vars       == <<codecVars, relayVars, streamVars, procVars, lockVars, handlers>>

(***************************************************************************)
(* Program constants.                                                      *)
(***************************************************************************)
MaxLabelLength  == 63
MaxDomainLength == 253
DefaultTTL      == 60
EDNSBufferSize  == 1232
TxtChunkSize    == 255
ReadBufSize     == 4096
ErrChanCap      == 2

(***************************************************************************)
(* Bounds of the model.                                                    *)
(***************************************************************************)
MaxShortLen == 3      \* every payload over ByteVals up to this length
MaxChunks   == 2      \* data chunks that arrive at one endpoint of a relay
MaxWrites   == 2      \* adapter Writes on the streams of a connection, all together
MaxBufLen   == 2      \* length of the buffer a caller hands to an adapter Read
MaxNameLen  == 255    \* domain name lengths handed to CalculateMaxPayloadSize
MaxLogged   == 2      \* accept errors one accept loop logs
MaxOffers   == 2      \* connections, and streams per connection, the server is offered
NumCallers  == 3      \* goroutines that call Connect, OpenStream and Close on a Client

ByteVals == {0, 90, 255}
\* lengths around the label boundary (39/40 bytes = 63/64 characters) and the
\* TXT chunk boundary (255/256 bytes), and the 600-byte scenario
LongLens == {39, 40, 79, 255, 256, 510, 600}

Dot == 46

(***************************************************************************)
(* Text helpers (package strings).                                         *)
(***************************************************************************)
Min(a, b) == IF a < b THEN a ELSE b

Pow2(n) == CASE n = 0 -> 1 [] n = 1 -> 2 [] n = 2 -> 4 [] n = 3 -> 8
             [] n = 4 -> 16 [] n = 5 -> 32 [] n = 6 -> 64 [] n = 7 -> 128
             [] n = 8 -> 256 [] n = 9 -> 512 [] n = 10 -> 1024 [] n = 11 -> 2048

ToLower(s) == [i \in 1..Len(s) |-> IF s[i] >= 65 /\ s[i] <= 90 THEN s[i] + 32 ELSE s[i]]

ToUpper(s) == [i \in 1..Len(s) |-> IF s[i] >= 97 /\ s[i] <= 122 THEN s[i] - 32 ELSE s[i]]

NotDot(c) == c # Dot

\* strings.ReplaceAll(s, ".", "")
RemoveDots(s) == SelectSeq(s, NotDot)

HasSuffix(s, suffix) ==
    /\ Len(s) >= Len(suffix)
    /\ SubSeq(s, Len(s) - Len(suffix) + 1, Len(s)) = suffix

TrimSuffix(s, suffix) ==
    IF HasSuffix(s, suffix) THEN SubSeq(s, 1, Len(s) - Len(suffix)) ELSE s

RECURSIVE Join(_, _)
Join(parts, sep) ==
    IF Len(parts) = 0 THEN <<>>
    ELSE IF Len(parts) = 1 THEN parts[1]
    ELSE parts[1] \o sep \o Join(Tail(parts), sep)

(***************************************************************************)
(* encoding/base32, StdEncoding.WithPadding(NoPadding).                    *)
(***************************************************************************)
\* the alphabet "ABCDEFGHIJKLMNOPQRSTUVWXYZ234567"
B32Char(v) == IF v < 26 THEN 65 + v ELSE 50 + (v - 26)

\* decodeMap: the 5-bit value of a character, 255 for a character outside the alphabet
B32Value(c) == IF c >= 65 /\ c <= 90 THEN c - 65
               ELSE IF c >= 50 /\ c <= 55 THEN c - 50 + 26
               ELSE 255

ByteAt(src, i) == IF i <= Len(src) THEN src[i] ELSE 0

\* EncodeToString: character k (from 0) holds bits 5k..5k+4 of the input, zero filled
EncodeToString(src) ==
    [k \in 1..((Len(src) * 8 + 4) \div 5) |->
        LET pos == (k - 1) * 5
            i   == pos \div 8 + 1
            off == pos % 8
            w   == ByteAt(src, i) * 256 + ByteAt(src, i + 1)
        IN  B32Char((w \div Pow2(11 - off)) % 32)]

\* number of bytes a trailing group of dlen characters decodes to
TailBytes(dlen) == CASE dlen = 2 -> 1 [] dlen = 4 -> 2 [] dlen = 5 -> 3
                     [] dlen = 7 -> 4 [] OTHER -> 0

ValAt(s, i) == IF i <= Len(s) THEN B32Value(s[i]) ELSE 0

\* DecodeString: CorruptInputError on a character outside the alphabet
DecodeString(s) ==
    IF \E i \in 1..Len(s) : B32Value(s[i]) = 255
    THEN [err |-> "CorruptInput", val |-> <<>>]
    ELSE [err |-> "nil",
          val |-> [b \in 1..((Len(s) \div 8) * 5 + TailBytes(Len(s) % 8)) |->
                     LET pos == (b - 1) * 8
                         c   == pos \div 5 + 1
                         off == pos % 5
                         w   == ValAt(s, c) * 1024 + ValAt(s, c + 1) * 32 + ValAt(s, c + 2)
                     IN  (w \div Pow2(7 - off)) % 256]]

(***************************************************************************)
(* The subdomain codec.                                                    *)
(***************************************************************************)
\* the label loop of EncodeSubdomain without the cut at MaxLabelLength
SplitLabelsUncut(enc) ==
    IF Len(enc) = 0 THEN <<>> ELSE <<enc>>

\* the label loop of EncodeSubdomain
RECURSIVE SplitLabels(_)
SplitLabels(enc) ==
    IF Len(enc) = 0 THEN <<>>
    ELSE LET labelLen == IF Len(enc) < MaxLabelLength THEN Len(enc) ELSE MaxLabelLength
         IN  <<SubSeq(enc, 1, labelLen)>> \o SplitLabels(SubSeq(enc, labelLen + 1, Len(enc)))

EncodeSubdomain(d) ==
    IF Len(d) = 0 THEN <<>>
    ELSE Join(SplitLabels(ToLower(EncodeToString(d))), <<Dot>>)

\* DecodeSubdomain without the strings.ToUpper of line 49
DecodeSubdomainNoUpper(subdomain) ==
    DecodeString(RemoveDots(subdomain))

DecodeSubdomain(subdomain) ==
    DecodeString(ToUpper(RemoveDots(subdomain)))

CreateFQDN(subdomain, dom) ==
    IF subdomain = <<>> THEN dom \o <<Dot>>
    ELSE subdomain \o <<Dot>> \o dom \o <<Dot>>

\* ExtractSubdomain testing the suffix without the separating dot
ExtractSubdomainNoBoundary(fqdn0, domain0) ==
    LET fqdn == TrimSuffix(fqdn0, <<Dot>>)
        dom  == TrimSuffix(domain0, <<Dot>>)
    IN  IF ~HasSuffix(fqdn, dom)
        THEN [err |-> "DomainMismatch", val |-> <<>>]
        ELSE IF fqdn = dom THEN [err |-> "nil", val |-> <<>>]
        ELSE [err |-> "nil", val |-> TrimSuffix(fqdn, <<Dot>> \o dom)]

ExtractSubdomain(fqdn0, domain0) ==
    LET fqdn == TrimSuffix(fqdn0, <<Dot>>)
        dom  == TrimSuffix(domain0, <<Dot>>)
    IN  IF ~HasSuffix(fqdn, <<Dot>> \o dom) /\ fqdn # dom
        THEN [err |-> "DomainMismatch", val |-> <<>>]
        ELSE IF fqdn = dom THEN [err |-> "nil", val |-> <<>>]
        ELSE [err |-> "nil", val |-> TrimSuffix(fqdn, <<Dot>> \o dom)]

\* CalculateMaxPayloadSize with the ratio of line 95 inverted
CalculateMaxPayloadSizeInverted(domainLen) ==
    LET availableLen == MaxDomainLength - domainLen - 2
        num == availableLen * 8
    IN  IF num >= 0 THEN num \div 5 ELSE -((-num) \div 5)

CalculateMaxPayloadSize(domainLen) ==
    LET availableLen == MaxDomainLength - domainLen - 2
        \* Go's integer division truncates toward zero
        num == availableLen * 5
    IN  IF num >= 0 THEN num \div 8 ELSE -((-num) \div 8)

(***************************************************************************)
(* DNS messages (github.com/miekg/dns Msg, as far as the program uses it). *)
(***************************************************************************)
EmptyMsg ==
    [Response |-> FALSE, RecursionDesired |-> FALSE, Rcode |-> "Success",
     Question |-> <<>>, Answer |-> <<>>, Extra |-> <<>>]

\* Msg.SetQuestion(name, qtype)
SetQuestion(name, qtype) ==
    [EmptyMsg EXCEPT !.RecursionDesired = TRUE,
                     !.Question = <<[Name |-> name, Qtype |-> qtype, Qclass |-> "INET"]>>]

\* Msg.SetReply(request)
SetReply(request) ==
    [EmptyMsg EXCEPT !.Response = TRUE,
                     !.RecursionDesired = request.RecursionDesired,
                     !.Question = IF Len(request.Question) > 0
                                  THEN <<request.Question[1]>> ELSE <<>>]

\* Msg.IsEdns0(): the OPT records of the additional section
IsOPT(rr) == rr.Rrtype = "OPT"

Edns0(m) ==
    LET opts == SelectSeq(m.Extra, IsOPT)
    IN  IF opts = <<>> THEN <<>> ELSE <<opts[Len(opts)]>>

\* CreateQuery without the separator between subdomain and domain
CreateQueryNoSeparator(d, dom) ==
    [SetQuestion(EncodeSubdomain(d) \o dom \o <<Dot>>, "TXT")
        EXCEPT !.Extra = <<[Name |-> <<Dot>>, Rrtype |-> "OPT", UDPSize |-> EDNSBufferSize]>>]

CreateQuery(d, dom) ==
    [SetQuestion(CreateFQDN(EncodeSubdomain(d), dom), "TXT")
        EXCEPT !.Extra = <<[Name |-> <<Dot>>, Rrtype |-> "OPT", UDPSize |-> EDNSBufferSize]>>]

ParseQueryData(msg, dom) ==
    IF Len(msg.Question) # 1 THEN [err |-> "Format", val |-> <<>>]
    ELSE IF msg.Question[1].Qtype # "TXT" THEN [err |-> "Format", val |-> <<>>]
    ELSE LET sub == ExtractSubdomain(msg.Question[1].Name, dom)
         IN  IF sub.err # "nil" THEN [err |-> sub.err, val |-> <<>>]
             ELSE IF sub.val = <<>> THEN [err |-> "nil", val |-> <<>>]
             ELSE LET dec == DecodeSubdomain(sub.val)
                  IN  IF dec.err # "nil" THEN [err |-> "Decode", val |-> <<>>]
                      ELSE dec

\* the chunk loop of CreateResponse without the cut at 255 bytes
SplitTxtUncut(d) ==
    IF Len(d) = 0 THEN <<>> ELSE <<d>>

\* the chunk loop of CreateResponse
RECURSIVE SplitTxt(_)
SplitTxt(d) ==
    IF Len(d) = 0 THEN <<>>
    ELSE LET chunkSize == IF Len(d) < TxtChunkSize THEN Len(d) ELSE TxtChunkSize
         IN  <<SubSeq(d, 1, chunkSize)>> \o SplitTxt(SubSeq(d, chunkSize + 1, Len(d)))

\* CreateResponse without the branch of lines 71-74 for the empty payload
CreateResponseNoNameError(q, d) ==
    [SetReply(q) EXCEPT
        !.Answer = <<[Name |-> q.Question[1].Name, Rrtype |-> "TXT",
                      Class |-> "INET", Ttl |-> DefaultTTL, Txt |-> SplitTxt(d)]>>,
        !.Extra = Edns0(q)]

CreateResponse(q, d) ==
    LET msg == SetReply(q)
    IN  IF Len(d) = 0 THEN [msg EXCEPT !.Rcode = "NameError"]
        ELSE [msg EXCEPT
                !.Answer = <<[Name |-> q.Question[1].Name, Rrtype |-> "TXT",
                              Class |-> "INET", Ttl |-> DefaultTTL, Txt |-> SplitTxt(d)]>>,
                !.Extra = Edns0(q)]

RECURSIVE ConcatAll(_)
ConcatAll(ss) == IF Len(ss) = 0 THEN <<>> ELSE ss[1] \o ConcatAll(Tail(ss))

\* the answer loop of ParseResponseData
RECURSIVE AnswerData(_)
AnswerData(answers) ==
    IF Len(answers) = 0 THEN <<>>
    ELSE (IF answers[1].Rrtype = "TXT" THEN ConcatAll(answers[1].Txt) ELSE <<>>)
         \o AnswerData(Tail(answers))

\* ParseResponseData reading only the first string of each TXT record
RECURSIVE AnswerDataFirstString(_)
AnswerDataFirstString(answers) ==
    IF Len(answers) = 0 THEN <<>>
    ELSE (IF answers[1].Rrtype = "TXT" /\ Len(answers[1].Txt) > 0
          THEN answers[1].Txt[1] ELSE <<>>)
         \o AnswerDataFirstString(Tail(answers))

ParseResponseDataFirstString(msg) ==
    IF msg.Rcode = "NameError" THEN [err |-> "nil", val |-> <<>>]
    ELSE IF msg.Rcode # "Success" THEN [err |-> "Response", val |-> <<>>]
    ELSE [err |-> "nil", val |-> AnswerDataFirstString(msg.Answer)]

\* ParseResponseData without the check of line 116
ParseResponseDataNoRcodeCheck(msg) ==
    IF msg.Rcode = "NameError" THEN [err |-> "nil", val |-> <<>>]
    ELSE [err |-> "nil", val |-> AnswerData(msg.Answer)]

ParseResponseData(msg) ==
    IF msg.Rcode = "NameError" THEN [err |-> "nil", val |-> <<>>]
    ELSE IF msg.Rcode # "Success" THEN [err |-> "Response", val |-> <<>>]
    ELSE [err |-> "nil", val |-> AnswerData(msg.Answer)]

(***************************************************************************)
(* The codec harness: the inputs are drawn in the initial state, each      *)
(* action applies one function of pkg/dns to them.                         *)
(***************************************************************************)
ShortPayloads == UNION {[1..n -> ByteVals] : n \in 0..MaxShortLen}

LongPayload(n) == [i \in 1..n |-> (i * 37 + 11) % 256]

Domains == {<<120>>,                                   \* "x"
            <<116, 46, 105, 111>>,                     \* "t.io"
            <<116, 117, 110, 110, 101, 108, 46, 101, 120, 97, 109, 112, 108, 101,
              46, 99, 111, 109>>}                      \* "tunnel.example.com"

\* the payloads that use up the budget CalculateMaxPayloadSize gives a domain
BudgetPayloads == {LongPayload(CalculateMaxPayloadSize(Len(d))) : d \in Domains}

Payloads == ShortPayloads \cup {LongPayload(n) : n \in LongLens} \cup BudgetPayloads

NotRun == [err |-> "notrun", val |-> <<>>]

\* no message has arrived, no payload size is asked for
IdleRx ==
    /\ rxMsg = EmptyMsg
    /\ rxQueryData = NotRun
    /\ rxResponseData = NotRun
    /\ domainLens = <<0, 0>>
    /\ maxPayloads = <<>>

InitCodec ==
    /\ data \in Payloads
    /\ domain \in Domains
    /\ encoded = <<>>
    /\ decoded = NotRun
    /\ query = <<>>
    /\ queryData = NotRun
    /\ response = <<>>
    /\ responseData = NotRun
    /\ IdleRx

IdleCodec ==
    /\ data = <<>>
    /\ domain = <<120>>
    /\ encoded = <<>>
    /\ decoded = NotRun
    /\ query = <<>>
    /\ queryData = NotRun
    /\ response = <<>>
    /\ responseData = NotRun
    /\ IdleRx

DoEncodeSubdomain ==
    /\ encoded = <<>>
    /\ encoded' = <<EncodeSubdomain(data)>>
    /\ UNCHANGED <<data, domain, decoded, query, queryData, response, responseData,
                   rxVars, sizeVars, relayVars, streamVars, procVars, lockVars, handlers>>

DoDecodeSubdomain ==
    /\ encoded # <<>>
    /\ decoded = NotRun
    /\ decoded' = DecodeSubdomain(encoded[1])
    /\ UNCHANGED <<data, domain, encoded, query, queryData, response, responseData,
                   rxVars, sizeVars, relayVars, streamVars, procVars, lockVars, handlers>>

DoCreateQuery ==
    /\ query = <<>>
    /\ query' = <<CreateQuery(data, domain)>>
    /\ UNCHANGED <<data, domain, encoded, decoded, queryData, response, responseData,
                   rxVars, sizeVars, relayVars, streamVars, procVars, lockVars, handlers>>

DoParseQueryData ==
    /\ query # <<>>
    /\ queryData = NotRun
    /\ queryData' = ParseQueryData(query[1], domain)
    /\ UNCHANGED <<data, domain, encoded, decoded, query, response, responseData,
                   rxVars, sizeVars, relayVars, streamVars, procVars, lockVars, handlers>>

DoCreateResponse ==
    /\ query # <<>>
    /\ response = <<>>
    /\ response' = <<CreateResponse(query[1], data)>>
    /\ UNCHANGED <<data, domain, encoded, decoded, query, queryData, responseData,
                   rxVars, sizeVars, relayVars, streamVars, procVars, lockVars, handlers>>

DoParseResponseData ==
    /\ response # <<>>
    /\ responseData = NotRun
    /\ responseData' = ParseResponseData(response[1])
    /\ UNCHANGED <<data, domain, encoded, decoded, query, queryData, response,
                   rxVars, sizeVars, relayVars, streamVars, procVars, lockVars, handlers>>

NextCodec ==
    \/ DoEncodeSubdomain
    \/ DoDecodeSubdomain
    \/ DoCreateQuery
    \/ DoParseQueryData
    \/ DoCreateResponse
    \/ DoParseResponseData


(***************************************************************************)
(* Messages as they arrive from the peer: ParseQueryData and               *)
(* ParseResponseData are handed whatever Msg.Unpack produced, so the       *)
(* sections and the response code are the sender's choice.                 *)
(***************************************************************************)
\* CreateErrorResponse(query, rcode)
CreateErrorResponse(q, rcode) == [SetReply(q) EXCEPT !.Rcode = rcode]

Rcodes == {"Success", "FormatError", "ServerFailure", "NameError", "NotImplemented", "Refused"}

\* "mzxw6" (the base32 text of "foo"), "1" (not base32), "org"
SubFoo == <<109, 122, 120, 119, 54>>

SubBad == <<49>>

Org == <<111, 114, 103>>

\* question names for the tunnel domain dom
RxNames(dom) ==
    { dom \o <<Dot>>,                                  \* the domain itself
      dom,                                             \* ... without the root dot
      SubFoo \o <<Dot>> \o dom \o <<Dot>>,             \* a payload under the domain
      SubFoo \o <<Dot>> \o SubFoo \o <<Dot>> \o dom \o <<Dot>>,   \* two labels of payload
      SubBad \o <<Dot>> \o dom \o <<Dot>>,             \* not base32 under the domain
      SubFoo \o dom \o <<Dot>>,                        \* ends with the domain inside a label
      SubFoo \o <<Dot>> \o Org \o <<Dot>>,             \* another domain
      SubFoo \o <<Dot>> \o dom \o <<Dot>> \o Org \o <<Dot>>,      \* the domain in the middle
      <<Dot>> \o dom \o <<Dot>>,                       \* an empty label before the domain
      <<Dot>> }                                        \* the root

RxQtypes == {"TXT", "A"}

RxQuestions(dom) ==
    {[Name |-> n, Qtype |-> t, Qclass |-> "INET"] : n \in RxNames(dom), t \in RxQtypes}

\* queries with no, one and two questions
RxQueries(dom) ==
    {[SetQuestion(<<Dot>>, "TXT") EXCEPT !.Question = <<>>]}
    \cup {[SetQuestion(<<Dot>>, "TXT") EXCEPT !.Question = <<q>>] : q \in RxQuestions(dom)}
    \cup {[SetQuestion(<<Dot>>, "TXT") EXCEPT !.Question = <<q, q>>] : q \in RxQuestions(dom)}

TxtRR(name, strings) ==
    [Name |-> name, Rrtype |-> "TXT", Class |-> "INET", Ttl |-> DefaultTTL, Txt |-> strings]

OtherRR(name) ==
    [Name |-> name, Rrtype |-> "A", Class |-> "INET", Ttl |-> DefaultTTL, Txt |-> <<>>]

\* answer sections: none, one TXT record of one or two strings, a record of
\* another type before a TXT record, two TXT records
RxAnswers(name) ==
    { <<>>,
      <<TxtRR(name, <<<<90>>>>)>>,
      <<TxtRR(name, <<<<0, 255>>, <<90>>>>)>>,
      <<OtherRR(name), TxtRR(name, <<<<90>>>>)>>,
      <<TxtRR(name, <<<<0>>>>), TxtRR(name, <<<<255>>>>)>> }

\* responses of every code, with and without answers
RxResponses(dom) ==
    LET q == SetQuestion(CreateFQDN(<<>>, dom), "TXT")
    IN  {CreateErrorResponse(q, rc) : rc \in Rcodes}
        \cup {[CreateErrorResponse(q, rc) EXCEPT !.Answer = an] :
                 rc \in Rcodes, an \in RxAnswers(q.Question[1].Name)}

InitRx ==
    /\ data = <<>>
    /\ domain \in Domains
    /\ encoded = <<>>
    /\ decoded = NotRun
    /\ query = <<>>
    /\ queryData = NotRun
    /\ response = <<>>
    /\ responseData = NotRun
    /\ rxMsg \in RxQueries(domain) \cup RxResponses(domain)
    /\ rxQueryData = NotRun
    /\ rxResponseData = NotRun
    /\ domainLens = <<0, 0>>
    /\ maxPayloads = <<>>

\* the server adapter hands the message to ParseQueryData
DoParseReceivedQuery ==
    /\ rxQueryData = NotRun
    /\ rxQueryData' = ParseQueryData(rxMsg, domain)
    /\ UNCHANGED <<data, domain, encoded, decoded, query, queryData, response, responseData,
                   rxMsg, rxResponseData, sizeVars, relayVars, streamVars, procVars, lockVars, handlers>>

\* the client adapter hands the message to ParseResponseData
DoParseReceivedResponse ==
    /\ rxResponseData = NotRun
    /\ rxResponseData' = ParseResponseData(rxMsg)
    /\ UNCHANGED <<data, domain, encoded, decoded, query, queryData, response, responseData,
                   rxMsg, rxQueryData, sizeVars, relayVars, streamVars, procVars, lockVars, handlers>>

NextRx ==
    \/ DoParseReceivedQuery
    \/ DoParseReceivedResponse


(***************************************************************************)
(* The payload budget: CalculateMaxPayloadSize applied to the lengths of   *)
(* two domain names, the shorter first.                                    *)
(***************************************************************************)
NameLens == 0..MaxNameLen

InitSize ==
    /\ data = <<>>
    /\ domain = <<120>>
    /\ encoded = <<>>
    /\ decoded = NotRun
    /\ query = <<>>
    /\ queryData = NotRun
    /\ response = <<>>
    /\ responseData = NotRun
    /\ rxMsg = EmptyMsg
    /\ rxQueryData = NotRun
    /\ rxResponseData = NotRun
    /\ domainLens \in {p \in NameLens \X NameLens : p[1] <= p[2]}
    /\ maxPayloads = <<>>

\* the next call of CalculateMaxPayloadSize
DoCalculateMaxPayloadSize ==
    /\ Len(maxPayloads) < Len(domainLens)
    /\ maxPayloads' = Append(maxPayloads,
                             CalculateMaxPayloadSize(domainLens[Len(maxPayloads) + 1]))
    /\ UNCHANGED <<data, domain, encoded, decoded, query, queryData, response, responseData,
                   rxVars, domainLens, relayVars, streamVars, procVars, lockVars, handlers>>

NextSize ==
    \/ DoCalculateMaxPayloadSize


(***************************************************************************)
(* The relay: BiDirectionalCopy(a, b) and its two callers.                 *)
(*   server: Server.handleStream -> ServerProxy.HandleStream, which calls  *)
(*           BiDirectionalCopy(stream, conn): "A" is the stream adapter,   *)
(*           "B" the connection to the target;                             *)
(*   client: TCPProxy.handleConnection, which calls                        *)
(*           BiDirectionalCopy(conn, stream): "A" is the accepted          *)
(*           connection, "B" the stream adapter.                           *)
(*                                                                         *)
(* An endpoint's inbound side is what its Read returns: a pending chunk,   *)
(* io.EOF once the peer has finished ("eof"), a non-EOF error once the     *)
(* endpoint has been closed under the reader ("closed": the peer reset it, *)
(* or the QUIC connection that owns the stream was closed, as by the       *)
(* deferred conn.CloseWithError of Server.handleConnection), and otherwise *)
(* Read blocks.  closeCalls counts the Close() calls that the relay and    *)
(* its caller make on the endpoint.                                        *)
(***************************************************************************)
Endpoints == {"A", "B"}

Other(e) == IF e = "A" THEN "B" ELSE "A"

ReadError(e) == IF e = "A" THEN "read A failed" ELSE "read B failed"

WriteError(e) == IF e = "A" THEN "write A failed" ELSE "write B failed"

\* err != nil && err != io.EOF
IsFailure(err) == err # "nil" /\ err # "EOF"

\* the endpoint of the relay that is the stream adapter
StreamEndpoint ==
    IF callerPc \in {"notStarted", "handleConnection", "clientRelaying", "clientCloseConn",
                     "clientDone", "clientExited"}
    THEN "B" ELSE "A"

\* no relay has been called
RelayIdle ==
    /\ relayPc = "idle"
    /\ copyPc = [t \in Endpoints |-> "idle"]
    /\ copyErr = [t \in Endpoints |-> "nil"]
    /\ errChan = <<>>
    /\ err1 = "nil"
    /\ err2 = "nil"
    /\ relayResult = "nil"
    /\ reported = <<>>
    /\ endpoint = [e \in Endpoints |->
                     [pending |-> 0, arrived |-> 0, rd |-> "open", wr |-> "ok",
                      written |-> 0, closeCalls |-> 0]]

\* a handler has been started for one stream (server) or one connection (client)
InitRelay ==
    /\ callerPc \in {"handleStream", "handleConnection"}
    /\ RelayIdle

\* ---- the environment of the two endpoints ----
\* a chunk of data arrives at endpoint e
Arrive(e) ==
    /\ endpoint[e].rd = "open"
    /\ endpoint[e].arrived < MaxChunks
    /\ endpoint' = [endpoint EXCEPT ![e].pending = @ + 1, ![e].arrived = @ + 1]
    /\ UNCHANGED <<callerPc, relayPc, copyPc, copyErr, errChan, err1, err2, relayResult, reported,
                   codecVars, streamVars, procVars, lockVars, handlers>>

\* the peer of endpoint e finishes sending: Read returns io.EOF after the pending data
PeerEOF(e) ==
    /\ endpoint[e].rd = "open"
    /\ endpoint' = [endpoint EXCEPT ![e].rd = "eof"]
    /\ UNCHANGED <<callerPc, relayPc, copyPc, copyErr, errChan, err1, err2, relayResult, reported,
                   codecVars, streamVars, procVars, lockVars, handlers>>

\* endpoint e is closed under the relay (its connection is torn down): a pending or
\* later Read and every later Write fail with an error that is not io.EOF
EndpointClosed(e) ==
    /\ endpoint[e].rd = "open"
    /\ endpoint' = [endpoint EXCEPT ![e].rd = "closed", ![e].wr = "closed", ![e].pending = 0]
    /\ UNCHANGED <<callerPc, relayPc, copyPc, copyErr, errChan, err1, err2, relayResult, reported,
                   codecVars, streamVars, procVars, lockVars, handlers>>

\* ---- Server.handleStream and ServerProxy.HandleStream ----
\* handleStream wraps the stream and calls the handler; net.Dial succeeds
DialOk ==
    /\ callerPc = "handleStream"
    /\ callerPc' = "relaying"
    /\ relayPc' = "called"
    /\ UNCHANGED <<copyPc, copyErr, errChan, err1, err2, relayResult, reported, endpoint,
                   codecVars, streamVars, procVars, lockVars, handlers>>

\* net.Dial fails: HandleStream returns, its deferred stream.Close() runs
DialFail ==
    /\ callerPc = "handleStream"
    /\ callerPc' = "closeAdapter"
    /\ UNCHANGED <<relayPc, copyPc, copyErr, errChan, err1, err2, relayResult, reported, endpoint,
                   codecVars, streamVars, procVars, lockVars, handlers>>

\* BiDirectionalCopy has returned: the deferred conn.Close()
CloseConn ==
    /\ callerPc = "relaying"
    /\ relayPc = "returned"
    /\ endpoint' = [endpoint EXCEPT !["B"].closeCalls = @ + 1]
    /\ callerPc' = "closeAdapter"
    /\ UNCHANGED <<relayPc, copyPc, copyErr, errChan, err1, err2, relayResult, reported,
                   codecVars, streamVars, procVars, lockVars, handlers>>

\* HandleStream's deferred stream.Close(): serverDNSStream.Close calls ds.stream.Close()
CloseAdapter ==
    /\ callerPc = "closeAdapter"
    /\ endpoint' = [endpoint EXCEPT !["A"].closeCalls = @ + 1]
    /\ callerPc' = "closeStream"
    /\ UNCHANGED <<relayPc, copyPc, copyErr, errChan, err1, err2, relayResult, reported,
                   codecVars, streamVars, procVars, lockVars, handlers>>

\* handleStream's deferred stream.Close() on the same substrate stream
CloseStream ==
    /\ callerPc = "closeStream"
    /\ endpoint' = [endpoint EXCEPT !["A"].closeCalls = @ + 1]
    /\ callerPc' = "done"
    /\ UNCHANGED <<relayPc, copyPc, copyErr, errChan, err1, err2, relayResult, reported,
                   codecVars, streamVars, procVars, lockVars, handlers>>

\* ---- TCPProxy.handleConnection ----
\* p.client.OpenStream succeeds
OpenStreamOk ==
    /\ callerPc = "handleConnection"
    /\ callerPc' = "clientRelaying"
    /\ relayPc' = "called"
    /\ UNCHANGED <<copyPc, copyErr, errChan, err1, err2, relayResult, reported, endpoint,
                   codecVars, streamVars, procVars, lockVars, handlers>>

\* p.client.OpenStream fails: handleConnection returns, only conn.Close() is deferred
OpenStreamFail ==
    /\ callerPc = "handleConnection"
    /\ callerPc' = "clientCloseConn"
    /\ UNCHANGED <<relayPc, copyPc, copyErr, errChan, err1, err2, relayResult, reported, endpoint,
                   codecVars, streamVars, procVars, lockVars, handlers>>

\* BiDirectionalCopy has returned: the deferred stream.Close(), dnsStream.Close calls
\* ds.stream.Close()
ClientCloseAdapter ==
    /\ callerPc = "clientRelaying"
    /\ relayPc = "returned"
    /\ endpoint' = [endpoint EXCEPT !["B"].closeCalls = @ + 1]
    /\ callerPc' = "clientCloseConn"
    /\ UNCHANGED <<relayPc, copyPc, copyErr, errChan, err1, err2, relayResult, reported,
                   codecVars, streamVars, procVars, lockVars, handlers>>

\* the deferred conn.Close()
ClientCloseConn ==
    /\ callerPc = "clientCloseConn"
    /\ endpoint' = [endpoint EXCEPT !["A"].closeCalls = @ + 1]
    /\ callerPc' = "clientDone"
    /\ UNCHANGED <<relayPc, copyPc, copyErr, errChan, err1, err2, relayResult, reported,
                   codecVars, streamVars, procVars, lockVars, handlers>>

\* ---- BiDirectionalCopy ----
\* errChan := make(chan error, 2); go copy(a, b); go copy(b, a)
RelayStart ==
    /\ relayPc = "called"
    /\ errChan' = <<>>
    /\ copyPc' = [t \in Endpoints |-> "read"]
    /\ relayPc' = "recv1"
    /\ UNCHANGED <<callerPc, copyErr, err1, err2, relayResult, reported, endpoint,
                   codecVars, streamVars, procVars, lockVars, handlers>>

\* io.Copy(dst, src), the read half of its loop; the goroutine t reads endpoint t
CopyRead(t) ==
    /\ copyPc[t] = "read"
    /\ \/ /\ endpoint[t].pending > 0
          /\ endpoint' = [endpoint EXCEPT ![t].pending = @ - 1]
          /\ copyPc' = [copyPc EXCEPT ![t] = "write"]
          /\ UNCHANGED copyErr
       \/ /\ endpoint[t].pending = 0
          /\ endpoint[t].rd = "eof"
          /\ copyErr' = [copyErr EXCEPT ![t] = "nil"]
          /\ copyPc' = [copyPc EXCEPT ![t] = "send"]
          /\ UNCHANGED endpoint
       \/ /\ endpoint[t].pending = 0
          /\ endpoint[t].rd = "closed"
          /\ copyErr' = [copyErr EXCEPT ![t] = ReadError(t)]
          /\ copyPc' = [copyPc EXCEPT ![t] = "send"]
          /\ UNCHANGED endpoint
    /\ UNCHANGED <<callerPc, relayPc, errChan, err1, err2, relayResult, reported,
                   codecVars, streamVars, procVars, lockVars, handlers>>

\* io.Copy(dst, src), the write half: the chunk read from t goes to the other endpoint
CopyWrite(t) ==
    /\ copyPc[t] = "write"
    /\ \/ /\ endpoint[Other(t)].wr = "ok"
          /\ endpoint' = [endpoint EXCEPT ![Other(t)].written = @ + 1]
          /\ copyPc' = [copyPc EXCEPT ![t] = "read"]
          /\ UNCHANGED copyErr
       \/ /\ endpoint[Other(t)].wr # "ok"
          /\ copyErr' = [copyErr EXCEPT ![t] = WriteError(Other(t))]
          /\ copyPc' = [copyPc EXCEPT ![t] = "send"]
          /\ UNCHANGED endpoint
    /\ UNCHANGED <<callerPc, relayPc, errChan, err1, err2, relayResult, reported,
                   codecVars, streamVars, procVars, lockVars, handlers>>

\* a copy goroutine that also closes its destination when io.Copy ends
CopySendClosingDst(t) ==
    /\ copyPc[t] = "send"
    /\ Len(errChan) < ErrChanCap
    /\ errChan' = Append(errChan, copyErr[t])
    /\ reported' = Append(reported, t)
    /\ copyPc' = [copyPc EXCEPT ![t] = "done"]
    /\ endpoint' = [endpoint EXCEPT ![Other(t)].closeCalls = @ + 1]
    /\ UNCHANGED <<callerPc, relayPc, copyErr, err1, err2, relayResult,
                   codecVars, streamVars, procVars, lockVars, handlers>>

\* errChan <- err: blocks while the channel is full
CopySend(t) ==
    /\ copyPc[t] = "send"
    /\ Len(errChan) < ErrChanCap
    /\ errChan' = Append(errChan, copyErr[t])
    /\ reported' = Append(reported, t)
    /\ copyPc' = [copyPc EXCEPT ![t] = "done"]
    /\ UNCHANGED <<callerPc, relayPc, copyErr, err1, err2, relayResult, endpoint,
                   codecVars, streamVars, procVars, lockVars, handlers>>

\* only the error received first is looked at
FirstFailureOnlyFirst(e1, e2) ==
    IF IsFailure(e1) THEN e1 ELSE "nil"

\* the value BiDirectionalCopy returns for the two received errors
FirstFailure(e1, e2) ==
    IF IsFailure(e1) THEN e1 ELSE IF IsFailure(e2) THEN e2 ELSE "nil"

\* a relay that returns as soon as the first completion is received
RelayRecv1AndReturn ==
    /\ relayPc = "recv1"
    /\ errChan # <<>>
    /\ err1' = Head(errChan)
    /\ errChan' = Tail(errChan)
    /\ relayResult' = FirstFailure(Head(errChan), "nil")
    /\ relayPc' = "returned"
    /\ UNCHANGED <<callerPc, copyPc, copyErr, err2, reported, endpoint,
                   codecVars, streamVars, procVars, lockVars, handlers>>

\* a relay that returns as soon as the first completion received is a failure
RelayRecv1ReturnOnFailure ==
    /\ relayPc = "recv1"
    /\ errChan # <<>>
    /\ err1' = Head(errChan)
    /\ errChan' = Tail(errChan)
    /\ relayResult' = FirstFailure(Head(errChan), "nil")
    /\ relayPc' = IF IsFailure(Head(errChan)) THEN "returned" ELSE "recv2"
    /\ UNCHANGED <<callerPc, copyPc, copyErr, err2, reported, endpoint,
                   codecVars, streamVars, procVars, lockVars, handlers>>

\* err1 := <-errChan
RelayRecv1 ==
    /\ relayPc = "recv1"
    /\ errChan # <<>>
    /\ err1' = Head(errChan)
    /\ errChan' = Tail(errChan)
    /\ relayPc' = "recv2"
    /\ UNCHANGED <<callerPc, copyPc, copyErr, err2, relayResult, reported, endpoint,
                   codecVars, streamVars, procVars, lockVars, handlers>>

\* a relay that prefers the error received second
RelayRecv2PreferSecond ==
    /\ relayPc = "recv2"
    /\ errChan # <<>>
    /\ err2' = Head(errChan)
    /\ errChan' = Tail(errChan)
    /\ relayResult' = FirstFailure(Head(errChan), err1)
    /\ relayPc' = "returned"
    /\ UNCHANGED <<callerPc, copyPc, copyErr, err1, reported, endpoint,
                   codecVars, streamVars, procVars, lockVars, handlers>>

\* err2 := <-errChan, then the two checks and the return
RelayRecv2 ==
    /\ relayPc = "recv2"
    /\ errChan # <<>>
    /\ err2' = Head(errChan)
    /\ errChan' = Tail(errChan)
    /\ relayResult' = FirstFailure(err1, Head(errChan))
    /\ relayPc' = "returned"
    /\ UNCHANGED <<callerPc, copyPc, copyErr, err1, reported, endpoint,
                   codecVars, streamVars, procVars, lockVars, handlers>>

NextRelay ==
    \/ DialOk
    \/ DialFail
    \/ CloseConn
    \/ CloseAdapter
    \/ CloseStream
    \/ OpenStreamOk
    \/ OpenStreamFail
    \/ ClientCloseAdapter
    \/ ClientCloseConn
    \/ RelayStart
    \/ RelayRecv1
    \/ RelayRecv2
    \/ \E t \in Endpoints : CopyRead(t)
    \/ \E t \in Endpoints : CopyWrite(t)
    \/ \E t \in Endpoints : CopySend(t)
    \/ \E e \in Endpoints : Arrive(e)
    \/ \E e \in Endpoints : PeerEOF(e)
    \/ \E e \in Endpoints : EndpointClosed(e)


(***************************************************************************)
(* One tunnel stream: the client adapter (dnsStream) and the server        *)
(* adapter (serverDNSStream) on the two directions of one substrate        *)
(* stream.  The substrate is an ordered byte stream: what a Write hands it *)
(* arrives piece by piece, and a Read returns what has arrived so far, at  *)
(* most the length of the buffer.                                          *)
(*                                                                         *)
(* The wire form of a message (Msg.Pack) is modelled by its structure: one *)
(* unit for the header with the section counts, then one unit per record   *)
(* of the question, answer and additional sections.  Msg.Unpack needs the  *)
(* header and every record the header counts, and ignores what follows.    *)
(***************************************************************************)
Directions == {"c2s", "s2c"}

\* one stream, and two streams of the same client connection
OneStream == {1}

TwoStreams == {1, 2}

\* the substrate streams of the connection
Streams == DOMAIN wire

StreamDomain == <<116, 46, 105, 111>>     \* "t.io"

StreamPayloads == {<<>>, <<90>>, <<0, 255>>}

CallerBufLens == 1..MaxBufLen

\* payloads of two labels, of the budget of the domain, and one byte above it
WriteLens == {40, CalculateMaxPayloadSize(Len(StreamDomain)),
              CalculateMaxPayloadSize(Len(StreamDomain)) + 1}

WritePayloads == StreamPayloads \cup {LongPayload(n) : n \in WriteLens}

\* the number of adapter Writes made so far on the streams of S
RECURSIVE WritesOn(_)
WritesOn(S) ==
    IF S = {} THEN 0
    ELSE LET s == CHOOSE x \in S : TRUE
         IN  Len(sent[s]["c2s"]) + Len(sent[s]["s2c"]) + WritesOn(S \ {s})

WritesSoFar == WritesOn(Streams)

Unit(sec, body) == [sec |-> sec, body |-> body]

Pack(m) ==
    <<Unit("hdr", [Response |-> m.Response, RecursionDesired |-> m.RecursionDesired,
                   Rcode |-> m.Rcode, qd |-> Len(m.Question), an |-> Len(m.Answer),
                   ar |-> Len(m.Extra)])>>
    \o [i \in 1..Len(m.Question) |-> Unit("qd", m.Question[i])]
    \o [i \in 1..Len(m.Answer) |-> Unit("an", m.Answer[i])]
    \o [i \in 1..Len(m.Extra) |-> Unit("ar", m.Extra[i])]

\* a name Msg.Pack accepts: fully qualified, no empty label but the root, no
\* label above 63 characters (every 64 characters in a row hold a dot); Pack
\* does not look at the length of the whole name
PackableName(name) ==
    \/ name = <<>>
    \/ name = <<Dot>>
    \/ /\ name[Len(name)] = Dot
       /\ name[1] # Dot
       /\ \A i \in 1..(Len(name) - 1) : ~(name[i] = Dot /\ name[i + 1] = Dot)
       /\ \A i \in 1..(Len(name) - MaxLabelLength) :
              \E j \in i..(i + MaxLabelLength) : name[j] = Dot

\* Msg.Pack fails
PackError(m) ==
    \/ \E i \in 1..Len(m.Question) : ~PackableName(m.Question[i].Name)
    \/ \E i \in 1..Len(m.Answer) : ~PackableName(m.Answer[i].Name)
    \/ \E i \in 1..Len(m.Extra) : ~PackableName(m.Extra[i].Name)

\* a name Msg.Unpack refuses: more than 255 octets on the wire, which is more
\* than 253 characters before the final dot
LongName(name) == Len(name) > MaxDomainLength + 1

Unpack(b) ==
    IF Len(b) = 0 \/ b[1].sec # "hdr" THEN [err |-> "Unpack", msg |-> EmptyMsg]
    ELSE LET h == b[1].body
         IN  IF \/ Len(b) < 1 + h.qd + h.an + h.ar
                \/ \E i \in 1..h.qd : b[1 + i].sec # "qd"
                \/ \E i \in 1..h.an : b[1 + h.qd + i].sec # "an"
                \/ \E i \in 1..h.ar : b[1 + h.qd + h.an + i].sec # "ar"
                \/ \E i \in 2..(1 + h.qd + h.an + h.ar) : LongName(b[i].body.Name)
             THEN [err |-> "Unpack", msg |-> EmptyMsg]
             ELSE [err |-> "nil",
                   msg |-> [Response |-> h.Response,
                            RecursionDesired |-> h.RecursionDesired,
                            Rcode |-> h.Rcode,
                            Question |-> [i \in 1..h.qd |-> b[1 + i].body],
                            Answer |-> [i \in 1..h.an |-> b[1 + h.qd + i].body],
                            Extra |-> [i \in 1..h.ar |-> b[1 + h.qd + h.an + i].body]]]

\* copy(p, data) with len(p) = plen
CopyInto(plen, d) == SubSeq(d, 1, Min(plen, Len(d)))

\* the record of one adapter Read: what it returned, and the length of the
\* buffer the caller passed
ReadOutcome(r, plen) == [err |-> r.err, val |-> r.val, plen |-> plen]

\* the record of one adapter Write: the payload, the count and the error it
\* returned
WriteOutcome(p, r) == [p |-> p, n |-> r.n, err |-> r.err]

NotWritten == [p |-> <<>>, n |-> 0, err |-> "notrun"]

\* no stream of the set S has been opened yet
InitStreams(S) ==
    /\ adapters = [s \in S |-> [client |-> <<>>, server |-> <<>>]]
    /\ wire = [s \in S |-> [d \in Directions |-> <<>>]]
    /\ rcvBuf = [s \in S |-> [d \in Directions |-> <<>>]]
    /\ sent = [s \in S |-> [d \in Directions |-> <<>>]]
    /\ reads = [s \in S |-> [d \in Directions |-> <<>>]]
    /\ wrote = [s \in S |-> [d \in Directions |-> NotWritten]]

InitStream == InitStreams(OneStream)

\* the adapter value Client.OpenStream returns for the substrate stream it opened
NewDNSStream(stream) == [stream |-> stream, domain |-> StreamDomain]

\* Client.OpenStream: c.conn.OpenStreamSync succeeds with stream s
OpenStream(s) ==
    /\ s \in Streams
    /\ adapters[s].client = <<>>
    /\ adapters' = [adapters EXCEPT ![s].client = <<NewDNSStream(s)>>]
    /\ UNCHANGED <<wire, rcvBuf, sent, reads, codecVars, relayVars, procVars,
                   wrote, lockVars, handlers>>

\* the adapter value Server.handleStream hands to the stream handler
NewServerDNSStream(stream) == [stream |-> stream, domain |-> StreamDomain]

\* Server.handleConnection accepts the stream the client opened and starts
\* Server.handleStream, which wraps it
handleStream(s) ==
    /\ s \in Streams
    /\ adapters[s].client # <<>>
    /\ adapters[s].server = <<>>
    /\ adapters' = [adapters EXCEPT ![s].server = <<NewServerDNSStream(s)>>]
    /\ UNCHANGED <<wire, rcvBuf, sent, reads, codecVars, relayVars, procVars,
                   wrote, lockVars, handlers>>

\* the substrate carries the next piece of direction d of stream s to the receiver
Deliver(s, d) ==
    /\ s \in Streams
    /\ wire[s][d] # <<>>
    /\ rcvBuf' = [rcvBuf EXCEPT ![s][d] = Append(@, Head(wire[s][d]))]
    /\ wire' = [wire EXCEPT ![s][d] = Tail(@)]
    /\ UNCHANGED <<adapters, sent, reads, codecVars, relayVars, procVars,
                   wrote, lockVars, handlers>>

\* what dnsStream.Read returns for the bytes buf[:n] of one substrate Read
dnsStreamReadResult(buf, plen) ==
    LET u == Unpack(buf)
    IN  IF u.err # "nil" THEN [err |-> "Unpack", val |-> <<>>]
        ELSE LET r == ParseResponseData(u.msg)
             IN  IF r.err # "nil" THEN [err |-> r.err, val |-> <<>>]
                 ELSE [err |-> "nil", val |-> CopyInto(plen, r.val)]

\* dnsStream.Read(p) on the adapter of stream s: blocks until the substrate
\* stream has bytes
dnsStreamRead(s, plen) ==
    /\ s \in Streams
    /\ adapters[s].client # <<>>
    /\ LET ds == adapters[s].client[1]
           in == rcvBuf[ds.stream]["s2c"]
           n  == Min(Len(in), ReadBufSize)
       IN  /\ in # <<>>
           /\ reads' = [reads EXCEPT ![s]["s2c"] =
                           Append(@, ReadOutcome(dnsStreamReadResult(SubSeq(in, 1, n), plen), plen))]
           /\ rcvBuf' = [rcvBuf EXCEPT ![ds.stream]["s2c"] = SubSeq(@, n + 1, Len(@))]
    /\ UNCHANGED <<adapters, wire, sent, codecVars, relayVars, procVars,
                   wrote, lockVars, handlers>>

\* dnsStream.Write returning the count of the substrate write
dnsStreamWriteResultPackedCount(ds, p, ok) ==
    LET msg == CreateQuery(p, ds.domain)
    IN  IF PackError(msg) THEN [n |-> 0, err |-> "pack", out |-> <<>>]
        ELSE IF ~ok THEN [n |-> 0, err |-> "io", out |-> <<>>]
        ELSE [n |-> Len(Pack(msg)), err |-> "nil", out |-> Pack(msg)]

\* what dnsStream.Write(p) returns and what it puts on the substrate stream;
\* ok: the substrate Write succeeds
dnsStreamWriteResult(ds, p, ok) ==
    LET msg == CreateQuery(p, ds.domain)
    IN  IF PackError(msg) THEN [n |-> 0, err |-> "pack", out |-> <<>>]
        ELSE IF ~ok THEN [n |-> 0, err |-> "io", out |-> <<>>]
        ELSE [n |-> Len(p), err |-> "nil", out |-> Pack(msg)]

\* dnsStream.Write(p) on the adapter of stream s, the substrate Write succeeds
dnsStreamWrite(s, p) ==
    /\ s \in Streams
    /\ adapters[s].client # <<>>
    /\ WritesSoFar < MaxWrites
    /\ LET ds == adapters[s].client[1]
           r  == dnsStreamWriteResult(ds, p, TRUE)
       IN  /\ wire' = [wire EXCEPT ![ds.stream]["c2s"] = @ \o r.out]
           /\ sent' = [sent EXCEPT ![s]["c2s"] = IF r.err = "nil" THEN Append(@, p) ELSE @]
           /\ wrote' = [wrote EXCEPT ![s]["c2s"] = WriteOutcome(p, r)]
    /\ UNCHANGED <<adapters, rcvBuf, reads, codecVars, relayVars, procVars,
                   lockVars, handlers>>

\* dnsStream.Write(p) on the adapter of stream s, the substrate Write fails:
\* the stream or its connection is closed
dnsStreamWriteFails(s, p) ==
    /\ s \in Streams
    /\ adapters[s].client # <<>>
    /\ LET ds == adapters[s].client[1]
           r  == dnsStreamWriteResult(ds, p, FALSE)
       IN  wrote' = [wrote EXCEPT ![s]["c2s"] = WriteOutcome(p, r)]
    /\ UNCHANGED <<adapters, wire, rcvBuf, sent, reads, codecVars, relayVars, procVars,
                   lockVars, handlers>>

\* what serverDNSStream.Read returns for the bytes buf[:n] of one substrate Read
serverDNSStreamReadResult(buf, dom, plen) ==
    LET u == Unpack(buf)
    IN  IF u.err # "nil" THEN [err |-> "Unpack", val |-> <<>>]
        ELSE LET r == ParseQueryData(u.msg, dom)
             IN  IF r.err # "nil" THEN [err |-> r.err, val |-> <<>>]
                 ELSE [err |-> "nil", val |-> CopyInto(plen, r.val)]

\* serverDNSStream.Read(p) on the adapter of stream s: blocks until the
\* substrate stream has bytes
serverDNSStreamReadCall(s, plen) ==
    /\ s \in Streams
    /\ adapters[s].server # <<>>
    /\ LET ds == adapters[s].server[1]
           in == rcvBuf[ds.stream]["c2s"]
           n  == Min(Len(in), ReadBufSize)
       IN  /\ in # <<>>
           /\ reads' = [reads EXCEPT ![s]["c2s"] =
                           Append(@, ReadOutcome(serverDNSStreamReadResult(SubSeq(in, 1, n), ds.domain, plen),
                                                 plen))]
           /\ rcvBuf' = [rcvBuf EXCEPT ![ds.stream]["c2s"] = SubSeq(@, n + 1, Len(@))]
    /\ UNCHANGED <<adapters, wire, sent, wrote>>

\* serverDNSStream.Read(p) called by any caller
serverDNSStreamRead(s, plen) ==
    /\ serverDNSStreamReadCall(s, plen)
    /\ UNCHANGED <<codecVars, relayVars, procVars, lockVars, handlers>>

\* serverDNSStream.Write answering the query that would carry p
serverDNSStreamWriteMsgWithSubdomain(ds, p) ==
    CreateResponse(CreateQuery(p, ds.domain), p)

\* the message serverDNSStream.Write(p) packs: the response to a fresh query
\* for the bare domain
serverDNSStreamWriteMsg(ds, p) ==
    LET dummyQuery == SetQuestion(CreateFQDN(<<>>, ds.domain), "TXT")
    IN  CreateResponse(dummyQuery, p)

\* serverDNSStream.Write(p) on the adapter of stream s
serverDNSStreamWrite(s, p) ==
    /\ s \in Streams
    /\ adapters[s].server # <<>>
    /\ WritesSoFar < MaxWrites
    /\ LET ds  == adapters[s].server[1]
           msg == serverDNSStreamWriteMsg(ds, p)
           r   == IF PackError(msg) THEN [n |-> 0, err |-> "pack", out |-> <<>>]
                  ELSE [n |-> Len(p), err |-> "nil", out |-> Pack(msg)]
       IN  /\ wire' = [wire EXCEPT ![ds.stream]["s2c"] = @ \o r.out]
           /\ sent' = [sent EXCEPT ![s]["s2c"] = IF r.err = "nil" THEN Append(@, p) ELSE @]
           /\ wrote' = [wrote EXCEPT ![s]["s2c"] = WriteOutcome(p, r)]
    /\ UNCHANGED <<adapters, rcvBuf, reads, codecVars, relayVars, procVars,
                   lockVars, handlers>>

\* the relay pair of each stream drives the adapters of that stream: one copy
\* goroutine calls Read, the other Write, in any interleaving with the
\* goroutines of the other streams
NextStream ==
    \/ \E s \in TwoStreams : OpenStream(s)
    \/ \E s \in TwoStreams : handleStream(s)
    \/ \E s \in TwoStreams : \E d \in Directions : Deliver(s, d)
    \/ \E s \in TwoStreams : \E p \in StreamPayloads : dnsStreamWrite(s, p)
    \/ \E s \in TwoStreams : \E p \in StreamPayloads : serverDNSStreamWrite(s, p)
    \/ \E s \in TwoStreams : \E plen \in CallerBufLens : dnsStreamRead(s, plen)
    \/ \E s \in TwoStreams : \E plen \in CallerBufLens : serverDNSStreamRead(s, plen)

(***************************************************************************)
(* The two processes.                                                      *)
(*   client: runClient connects, starts TCPProxy.Listen in a goroutine and *)
(*           waits for a signal or for Listen to return; TCPProxy.Listen   *)
(*           starts one TCPProxy.handleConnection per accepted connection. *)
(*           The model follows one incoming connection: its handler is the *)
(*           client caller of the relay above.                             *)
(*   server: runServer starts Server.Listen in a goroutine and waits for a *)
(*           signal or for Listen to return; Server.Listen starts one      *)
(*           Server.handleConnection per accepted connection, which starts *)
(*           one Server.handleStream per accepted stream.                  *)
(* An Accept call returns a connection that was offered, or an error: the  *)
(* listener was closed, the context was cancelled (QUIC), or the accept    *)
(* failed for a reason of its own.                                         *)
(***************************************************************************)
Procs == {"client", "server"}

\* neither process runs
IdleProc ==
    /\ ctxDone = [p \in Procs |-> FALSE]
    /\ mainPc = [p \in Procs |-> "off"]
    /\ loopPc = [l \in {"tcp", "quic"} |-> "off"]
    /\ listener = [l \in {"tcp", "quic"} |-> "none"]
    /\ pListener = "nil"
    /\ wg = 0
    /\ offered = [l \in {"tcp", "quic"} |-> 0]
    /\ logged = [l \in {"tcp", "quic", "stream"} |-> 0]
    /\ srvConns = <<>>
    /\ clientConn = "nil"

\* runClient after client.Connect and NewTCPProxy, the Listen goroutine started
InitClient ==
    /\ ctxDone = [p \in Procs |-> FALSE]
    /\ mainPc = [p \in Procs |-> IF p = "client" THEN "select" ELSE "off"]
    /\ loopPc = [l \in {"tcp", "quic"} |-> IF l = "tcp" THEN "start" ELSE "off"]
    /\ listener = [l \in {"tcp", "quic"} |-> "none"]
    /\ pListener = "nil"
    /\ wg = 0
    /\ offered = [l \in {"tcp", "quic"} |-> 0]
    /\ logged = [l \in {"tcp", "quic", "stream"} |-> 0]
    /\ srvConns = <<>>
    /\ clientConn = "open"

\* runServer after NewServer, the Listen goroutine started
InitServer ==
    /\ ctxDone = [p \in Procs |-> FALSE]
    /\ mainPc = [p \in Procs |-> IF p = "server" THEN "select" ELSE "off"]
    /\ loopPc = [l \in {"tcp", "quic"} |-> IF l = "quic" THEN "start" ELSE "off"]
    /\ listener = [l \in {"tcp", "quic"} |-> "none"]
    /\ pListener = "nil"
    /\ wg = 0
    /\ offered = [l \in {"tcp", "quic"} |-> 0]
    /\ logged = [l \in {"tcp", "quic", "stream"} |-> 0]
    /\ srvConns = <<>>
    /\ clientConn = "nil"

\* ---- runClient ----
\* case sig := <-sigChan: cancel()
ClientSignal ==
    /\ mainPc["client"] = "select"
    /\ ctxDone' = [ctxDone EXCEPT !["client"] = TRUE]
    /\ mainPc' = [mainPc EXCEPT !["client"] = "cancelled"]
    /\ UNCHANGED <<loopPc, listener, pListener, wg, offered, logged, srvConns, clientConn,
                   codecVars, relayVars, streamVars, lockVars, handlers>>

\* tcpProxy.Close(): p.listener is seen set, p.listener.Close()
ProxyCloseListener ==
    /\ mainPc["client"] = "cancelled"
    /\ pListener = "set"
    /\ listener' = [listener EXCEPT !["tcp"] = "closed"]
    /\ mainPc' = [mainPc EXCEPT !["client"] = "wgWait"]
    /\ UNCHANGED <<ctxDone, loopPc, pListener, wg, offered, logged, srvConns, clientConn,
                   codecVars, relayVars, streamVars, lockVars, handlers>>

\* tcpProxy.Close(): p.listener is seen nil.  Listen assigns the field in its
\* own goroutine with no synchronisation, so the read may come before the
\* assignment; the listener Listen then opens is never closed
ProxyCloseNoListener ==
    /\ mainPc["client"] = "cancelled"
    /\ pListener = "nil"
    /\ mainPc' = [mainPc EXCEPT !["client"] = "wgWait"]
    /\ UNCHANGED <<ctxDone, loopPc, listener, pListener, wg, offered, logged, srvConns,
                   clientConn, codecVars, relayVars, streamVars, lockVars, handlers>>

\* tcpProxy.Close(): p.wg.Wait() returns, Close returns, runClient returns nil
ProxyCloseWait ==
    /\ mainPc["client"] = "wgWait"
    /\ wg = 0
    /\ mainPc' = [mainPc EXCEPT !["client"] = "proxyClosed"]
    /\ UNCHANGED <<ctxDone, loopPc, listener, pListener, wg, offered, logged, srvConns,
                   clientConn, codecVars, relayVars, streamVars, lockVars, handlers>>

\* case err := <-errChan: Listen has returned, runClient returns
ClientRecvListenErr ==
    /\ mainPc["client"] = "select"
    /\ loopPc["tcp"] \in {"failed", "returnedCtx"}
    /\ mainPc' = [mainPc EXCEPT !["client"] = "listenReturned"]
    /\ UNCHANGED <<ctxDone, loopPc, listener, pListener, wg, offered, logged, srvConns,
                   clientConn, codecVars, relayVars, streamVars, lockVars, handlers>>

\* runClient returns: the deferred client.Close() closes the QUIC connection,
\* and with it every stream opened on it; the deferred cancel()
ClientReturn ==
    /\ mainPc["client"] \in {"proxyClosed", "listenReturned"}
    /\ clientConn' = "closed"
    /\ ctxDone' = [ctxDone EXCEPT !["client"] = TRUE]
    /\ mainPc' = [mainPc EXCEPT !["client"] = "exited"]
    /\ endpoint' = IF callerPc = "clientRelaying"
                   THEN [endpoint EXCEPT
                           !["B"].rd = IF @ = "open" THEN "closed" ELSE @,
                           !["B"].wr = "closed",
                           !["B"].pending = IF endpoint["B"].rd = "open" THEN 0 ELSE @]
                   ELSE endpoint
    /\ UNCHANGED <<callerPc, relayPc, copyPc, copyErr, errChan, err1, err2, relayResult,
                   reported, loopPc, listener, pListener, wg, offered, logged, srvConns,
                   codecVars, streamVars, lockVars, handlers>>

\* ---- TCPProxy.Listen ----
\* net.Listen succeeds, p.listener = listener
TCPListen ==
    /\ loopPc["tcp"] = "start"
    /\ listener' = [listener EXCEPT !["tcp"] = "open"]
    /\ pListener' = "set"
    /\ loopPc' = [loopPc EXCEPT !["tcp"] = "accepting"]
    /\ UNCHANGED <<ctxDone, mainPc, wg, offered, logged, srvConns, clientConn,
                   codecVars, relayVars, streamVars, lockVars, handlers>>

\* net.Listen fails, Listen returns the error
TCPListenFail ==
    /\ loopPc["tcp"] = "start"
    /\ loopPc' = [loopPc EXCEPT !["tcp"] = "failed"]
    /\ UNCHANGED <<ctxDone, mainPc, listener, pListener, wg, offered, logged, srvConns,
                   clientConn, codecVars, relayVars, streamVars, lockVars, handlers>>

\* a client connects to the listen address
IncomingTCP ==
    /\ listener["tcp"] = "open"
    /\ callerPc = "notStarted"
    /\ offered["tcp"] = 0
    /\ offered' = [offered EXCEPT !["tcp"] = 1]
    /\ UNCHANGED <<ctxDone, mainPc, loopPc, listener, pListener, wg, logged, srvConns,
                   clientConn, codecVars, relayVars, streamVars, lockVars, handlers>>

\* listener.Accept() returns a connection: p.wg.Add(1), go p.handleConnection
TCPAccept ==
    /\ loopPc["tcp"] = "accepting"
    /\ listener["tcp"] = "open"
    /\ offered["tcp"] > 0
    /\ callerPc = "notStarted"
    /\ offered' = [offered EXCEPT !["tcp"] = @ - 1]
    /\ wg' = wg + 1
    /\ callerPc' = "handleConnection"
    /\ UNCHANGED <<relayPc, copyPc, copyErr, errChan, err1, err2, relayResult, reported,
                   endpoint, ctxDone, mainPc, loopPc, listener, pListener, logged, srvConns,
                   clientConn, codecVars, streamVars, lockVars, handlers>>

\* the select of TCPProxy.Listen after an accept error
TCPAcceptErrorStep ==
    IF ctxDone["client"]
    THEN /\ loopPc' = [loopPc EXCEPT !["tcp"] = "returnedCtx"]
         /\ UNCHANGED logged
    ELSE /\ logged["tcp"] < MaxLogged
         /\ logged' = [logged EXCEPT !["tcp"] = @ + 1]
         /\ UNCHANGED loopPc

\* listener.Accept() fails because the listener is closed
TCPAcceptClosed ==
    /\ loopPc["tcp"] = "accepting"
    /\ listener["tcp"] = "closed"
    /\ TCPAcceptErrorStep
    /\ UNCHANGED <<ctxDone, mainPc, listener, pListener, wg, offered, srvConns, clientConn,
                   codecVars, relayVars, streamVars, lockVars, handlers>>

\* listener.Accept() fails for a reason of its own on the open listener
TCPAcceptFailure ==
    /\ loopPc["tcp"] = "accepting"
    /\ listener["tcp"] = "open"
    /\ TCPAcceptErrorStep
    /\ UNCHANGED <<ctxDone, mainPc, listener, pListener, wg, offered, srvConns, clientConn,
                   codecVars, relayVars, streamVars, lockVars, handlers>>

\* TCPProxy.handleConnection returns: the deferred p.wg.Done()
HandlerDone ==
    /\ callerPc = "clientDone"
    /\ callerPc' = "clientExited"
    /\ wg' = wg - 1
    /\ UNCHANGED <<relayPc, copyPc, copyErr, errChan, err1, err2, relayResult, reported,
                   endpoint, ctxDone, mainPc, loopPc, listener, pListener, offered, logged,
                   srvConns, clientConn, codecVars, streamVars, lockVars, handlers>>

\* ---- runServer ----
\* case sig := <-sigChan: cancel(), return nil
ServerSignal ==
    /\ mainPc["server"] = "select"
    /\ ctxDone' = [ctxDone EXCEPT !["server"] = TRUE]
    /\ mainPc' = [mainPc EXCEPT !["server"] = "exited"]
    /\ UNCHANGED <<loopPc, listener, pListener, wg, offered, logged, srvConns, clientConn,
                   codecVars, relayVars, streamVars, lockVars, handlers>>

\* case err := <-errChan: Listen has returned, runServer returns; the deferred cancel()
ServerRecvListenErr ==
    /\ mainPc["server"] = "select"
    /\ loopPc["quic"] \in {"failed", "returnedCtx"}
    /\ ctxDone' = [ctxDone EXCEPT !["server"] = TRUE]
    /\ mainPc' = [mainPc EXCEPT !["server"] = "exited"]
    /\ UNCHANGED <<loopPc, listener, pListener, wg, offered, logged, srvConns, clientConn,
                   codecVars, relayVars, streamVars, lockVars, handlers>>

\* ---- Server.Listen ----
\* quic.ListenAddr succeeds
QuicListen ==
    /\ loopPc["quic"] = "start"
    /\ listener' = [listener EXCEPT !["quic"] = "open"]
    /\ loopPc' = [loopPc EXCEPT !["quic"] = "accepting"]
    /\ UNCHANGED <<ctxDone, mainPc, pListener, wg, offered, logged, srvConns, clientConn,
                   codecVars, relayVars, streamVars, lockVars, handlers>>

\* quic.ListenAddr fails, Listen returns the error
QuicListenFail ==
    /\ loopPc["quic"] = "start"
    /\ loopPc' = [loopPc EXCEPT !["quic"] = "failed"]
    /\ UNCHANGED <<ctxDone, mainPc, listener, pListener, wg, offered, logged, srvConns,
                   clientConn, codecVars, relayVars, streamVars, lockVars, handlers>>

\* a client connects to the server
IncomingQuic ==
    /\ listener["quic"] = "open"
    /\ offered["quic"] + Len(srvConns) < MaxOffers
    /\ offered' = [offered EXCEPT !["quic"] = @ + 1]
    /\ UNCHANGED <<ctxDone, mainPc, loopPc, listener, pListener, wg, logged, srvConns,
                   clientConn, codecVars, relayVars, streamVars, lockVars, handlers>>

\* listener.Accept(ctx) returns a connection: go s.handleConnection(ctx, conn)
QuicAccept ==
    /\ loopPc["quic"] = "accepting"
    /\ offered["quic"] > 0
    /\ offered' = [offered EXCEPT !["quic"] = @ - 1]
    /\ srvConns' = Append(srvConns, [pc |-> "accepting", offered |-> 0, streams |-> 0])
    /\ UNCHANGED <<ctxDone, mainPc, loopPc, listener, pListener, wg, logged, clientConn,
                   codecVars, relayVars, streamVars, lockVars, handlers>>

\* the select of Server.Listen after an accept error; on return the deferred
\* listener.Close()
QuicAcceptErrorStep ==
    IF ctxDone["server"]
    THEN /\ loopPc' = [loopPc EXCEPT !["quic"] = "returnedCtx"]
         /\ listener' = [listener EXCEPT !["quic"] = "closed"]
         /\ UNCHANGED logged
    ELSE /\ logged["quic"] < MaxLogged
         /\ logged' = [logged EXCEPT !["quic"] = @ + 1]
         /\ UNCHANGED <<loopPc, listener>>

\* listener.Accept(ctx) fails because ctx is cancelled
QuicAcceptCancelled ==
    /\ loopPc["quic"] = "accepting"
    /\ ctxDone["server"]
    /\ QuicAcceptErrorStep
    /\ UNCHANGED <<ctxDone, mainPc, pListener, wg, offered, srvConns, clientConn,
                   codecVars, relayVars, streamVars, lockVars, handlers>>

\* listener.Accept(ctx) fails for a reason of its own
QuicAcceptFailure ==
    /\ loopPc["quic"] = "accepting"
    /\ QuicAcceptErrorStep
    /\ UNCHANGED <<ctxDone, mainPc, pListener, wg, offered, srvConns, clientConn,
                   codecVars, relayVars, streamVars, lockVars, handlers>>

\* ---- Server.handleConnection, for the c-th accepted connection ----
\* the client opens a stream on the connection
IncomingStream(c) ==
    /\ c \in DOMAIN srvConns
    /\ srvConns[c].pc = "accepting"
    /\ srvConns[c].offered + srvConns[c].streams < MaxOffers
    /\ srvConns' = [srvConns EXCEPT ![c].offered = @ + 1]
    /\ UNCHANGED <<ctxDone, mainPc, loopPc, listener, pListener, wg, offered, logged,
                   clientConn, codecVars, relayVars, streamVars, lockVars, handlers>>

\* conn.AcceptStream(ctx) returns a stream: go s.handleStream(ctx, stream)
ConnAcceptStream(c) ==
    /\ c \in DOMAIN srvConns
    /\ srvConns[c].pc = "accepting"
    /\ srvConns[c].offered > 0
    /\ srvConns' = [srvConns EXCEPT ![c].offered = @ - 1, ![c].streams = @ + 1]
    /\ UNCHANGED <<ctxDone, mainPc, loopPc, listener, pListener, wg, offered, logged,
                   clientConn, codecVars, relayVars, streamVars, lockVars, handlers>>

\* the select of Server.handleConnection after an accept error: both branches
\* return, the second after logging; on return the deferred conn.CloseWithError
ConnAcceptErrorStep(c) ==
    IF ctxDone["server"]
    THEN /\ srvConns' = [srvConns EXCEPT ![c].pc = "returnedCtx"]
         /\ UNCHANGED logged
    ELSE /\ srvConns' = [srvConns EXCEPT ![c].pc = "returnedErr"]
         /\ logged' = [logged EXCEPT !["stream"] = @ + 1]

\* conn.AcceptStream(ctx) fails because ctx is cancelled
ConnAcceptCancelled(c) ==
    /\ c \in DOMAIN srvConns
    /\ srvConns[c].pc = "accepting"
    /\ ctxDone["server"]
    /\ ConnAcceptErrorStep(c)
    /\ UNCHANGED <<ctxDone, mainPc, loopPc, listener, pListener, wg, offered, clientConn,
                   codecVars, relayVars, streamVars, lockVars, handlers>>

\* conn.AcceptStream(ctx) fails for a reason of its own
ConnAcceptFailure(c) ==
    /\ c \in DOMAIN srvConns
    /\ srvConns[c].pc = "accepting"
    /\ ConnAcceptErrorStep(c)
    /\ UNCHANGED <<ctxDone, mainPc, loopPc, listener, pListener, wg, offered, clientConn,
                   codecVars, relayVars, streamVars, lockVars, handlers>>

\* the client: the main goroutine, the accept loop, the handler of one
\* connection and its relay, and what the peers of the relay do
NextShutdown ==
    \/ ClientSignal
    \/ ProxyCloseListener
    \/ ProxyCloseNoListener
    \/ ProxyCloseWait
    \/ ClientRecvListenErr
    \/ ClientReturn
    \/ TCPListen
    \/ TCPListenFail
    \/ IncomingTCP
    \/ TCPAccept
    \/ TCPAcceptClosed
    \/ TCPAcceptFailure
    \/ OpenStreamOk
    \/ OpenStreamFail
    \/ ClientCloseAdapter
    \/ ClientCloseConn
    \/ HandlerDone
    \/ RelayStart
    \/ RelayRecv1
    \/ RelayRecv2
    \/ \E t \in Endpoints : CopyRead(t)
    \/ \E t \in Endpoints : CopyWrite(t)
    \/ \E t \in Endpoints : CopySend(t)
    \/ \E e \in Endpoints : Arrive(e)
    \/ \E e \in Endpoints : PeerEOF(e)
    \/ \E e \in Endpoints : EndpointClosed(e)

\* the server: the main goroutine, the accept loop of the listener and the
\* accept loop of each connection
NextServer ==
    \/ ServerSignal
    \/ ServerRecvListenErr
    \/ QuicListen
    \/ QuicListenFail
    \/ IncomingQuic
    \/ QuicAccept
    \/ QuicAcceptCancelled
    \/ QuicAcceptFailure
    \/ \E c \in 1..MaxOffers : IncomingStream(c)
    \/ \E c \in 1..MaxOffers : ConnAcceptStream(c)
    \/ \E c \in 1..MaxOffers : ConnAcceptCancelled(c)
    \/ \E c \in 1..MaxOffers : ConnAcceptFailure(c)


(***************************************************************************)
(* Client.conn and Client.mu.  Goroutines call Connect, OpenStream and     *)
(* Close on one Client; each call takes the lock, runs its body while it   *)
(* holds the lock (the dial, the stream open and the close are blocking    *)
(* network operations) and releases the lock as it returns.  A Lock that   *)
(* waits keeps new readers out (sync.RWMutex).                             *)
(***************************************************************************)
Callers == 1..NumCallers

ClientOps == {"Connect", "OpenStream", "Close"}

IdleCall == [op |-> "none", pc |-> "idle", res |-> "none"]

\* nobody calls the client, nobody holds its lock
IdleLock ==
    /\ mu = [w |-> FALSE, r |-> 0]
    /\ calls = [t \in Callers |-> IdleCall]

\* goroutine t calls Connect, OpenStream or Close and reaches the lock
ClientCall(t, op) ==
    /\ calls[t].pc = "idle"
    /\ calls' = [calls EXCEPT ![t] = [op |-> op, pc |-> "lock", res |-> "none"]]
    /\ UNCHANGED <<mu, codecVars, relayVars, streamVars, procVars, handlers>>

\* a call of Lock is waiting
LockPending == \E u \in Callers : calls[u].pc = "lock" /\ calls[u].op # "OpenStream"

\* c.mu.Lock() of Connect and Close taken as readers take it
LockFreeAmongReaders(m) == ~m.w

\* c.mu.Lock() can return
LockFree(m) == ~m.w /\ m.r = 0

\* c.mu.RLock() can return
RLockFree(m, pending) == ~m.w /\ ~pending

\* c.mu.Lock() returns in Connect or Close
Lock(t) ==
    /\ calls[t].pc = "lock"
    /\ calls[t].op \in {"Connect", "Close"}
    /\ LockFree(mu)
    /\ mu' = [mu EXCEPT !.w = TRUE]
    /\ calls' = [calls EXCEPT ![t].pc = "body"]
    /\ UNCHANGED <<codecVars, relayVars, streamVars, procVars, handlers>>

\* c.mu.RLock() returns in OpenStream
RLock(t) ==
    /\ calls[t].pc = "lock"
    /\ calls[t].op = "OpenStream"
    /\ RLockFree(mu, LockPending)
    /\ mu' = [mu EXCEPT !.r = @ + 1]
    /\ calls' = [calls EXCEPT ![t].pc = "body"]
    /\ UNCHANGED <<codecVars, relayVars, streamVars, procVars, handlers>>

\* Connect: quic.DialAddr returns; c.conn = conn unless it failed; the
\* deferred Unlock
ConnectBody(t, ok) ==
    /\ calls[t].pc = "body"
    /\ calls[t].op = "Connect"
    /\ clientConn' = IF ok THEN "open" ELSE clientConn
    /\ calls' = [calls EXCEPT ![t].pc = "idle", ![t].res = IF ok THEN "nil" ELSE "err"]
    /\ mu' = [mu EXCEPT !.w = FALSE]
    /\ UNCHANGED <<ctxDone, mainPc, loopPc, listener, pListener, wg, offered, logged,
                   srvConns, codecVars, relayVars, streamVars, handlers>>

\* OpenStream without the check of lines 64-66
OpenStreamResultUnchecked(conn, ok) ==
    IF ok THEN "adapter" ELSE "err"

\* what OpenStream returns: an error when c.conn is nil, an error when
\* OpenStreamSync fails, as it does on a closed connection, else an adapter
OpenStreamResult(conn, ok) ==
    IF conn = "nil" THEN "errNotConnected"
    ELSE IF conn = "open" /\ ok THEN "adapter"
    ELSE "err"

\* OpenStream: the check of c.conn, c.conn.OpenStreamSync; the deferred RUnlock
OpenStreamBody(t, ok) ==
    /\ calls[t].pc = "body"
    /\ calls[t].op = "OpenStream"
    /\ calls' = [calls EXCEPT ![t].pc = "idle", ![t].res = OpenStreamResult(clientConn, ok)]
    /\ mu' = [mu EXCEPT !.r = @ - 1]
    /\ UNCHANGED <<codecVars, relayVars, streamVars, procVars, handlers>>

\* Close: c.conn.CloseWithError unless c.conn is nil; the deferred Unlock
CloseBody(t) ==
    /\ calls[t].pc = "body"
    /\ calls[t].op = "Close"
    /\ clientConn' = IF clientConn # "nil" THEN "closed" ELSE clientConn
    /\ calls' = [calls EXCEPT ![t].pc = "idle", ![t].res = "nil"]
    /\ mu' = [mu EXCEPT !.w = FALSE]
    /\ UNCHANGED <<ctxDone, mainPc, loopPc, listener, pListener, wg, offered, logged,
                   srvConns, codecVars, relayVars, streamVars, handlers>>

NextLock ==
    \/ \E t \in Callers : \E op \in ClientOps : ClientCall(t, op)
    \/ \E t \in Callers : Lock(t)
    \/ \E t \in Callers : RLock(t)
    \/ \E t \in Callers : \E ok \in BOOLEAN : ConnectBody(t, ok)
    \/ \E t \in Callers : \E ok \in BOOLEAN : OpenStreamBody(t, ok)
    \/ \E t \in Callers : CloseBody(t)

\* no stream has been accepted by the server
IdleHandlers == handlers = <<>>

(***************************************************************************)
(* The server side of one connection and its streams.  Server.handle-      *)
(* Connection accepts each stream and starts Server.handleStream, which    *)
(* wraps it in a serverDNSStream and runs ServerProxy.HandleStream: dial   *)
(* the target, then BiDirectionalCopy(adapter, target).  "up" is the copy  *)
(* that reads the adapter and writes the target, "down" the copy that      *)
(* reads the target and writes the adapter.  io.Copy ends at the first     *)
(* error or end of input of its source; its buffer holds any payload.      *)
(***************************************************************************)
NoHandler == [pc |-> "none", up |-> "idle", down |-> "idle", result |-> "none"]

\* the server has accepted one connection; none of its streams is open yet
InitServing ==
    /\ ctxDone = [p \in Procs |-> FALSE]
    /\ mainPc = [p \in Procs |-> IF p = "server" THEN "select" ELSE "off"]
    /\ loopPc = [l \in {"tcp", "quic"} |-> IF l = "quic" THEN "accepting" ELSE "off"]
    /\ listener = [l \in {"tcp", "quic"} |-> IF l = "quic" THEN "open" ELSE "none"]
    /\ pListener = "nil"
    /\ wg = 0
    /\ offered = [l \in {"tcp", "quic"} |-> 0]
    /\ logged = [l \in {"tcp", "quic", "stream"} |-> 0]
    /\ srvConns = <<[pc |-> "accepting", offered |-> 0, streams |-> 0]>>
    /\ clientConn = "nil"
    /\ handlers = [s \in TwoStreams |-> NoHandler]

\* the connection of the streams is open: Server.handleConnection has not
\* returned, its deferred conn.CloseWithError has not run
ConnOpen == srvConns[1].pc = "accepting"

\* conn.AcceptStream returns stream s; go handleStream(ctx, stream), which
\* wraps the stream and calls HandleStream; net.Dial succeeds or fails
ServeStream(s, ok) ==
    /\ s \in Streams
    /\ ConnOpen
    /\ adapters[s].client # <<>>
    /\ adapters[s].server = <<>>
    /\ adapters' = [adapters EXCEPT ![s].server = <<NewServerDNSStream(s)>>]
    /\ srvConns' = [srvConns EXCEPT ![1].streams = @ + 1]
    /\ handlers' = [handlers EXCEPT ![s] =
                       IF ok THEN [pc |-> "relaying", up |-> "copying", down |-> "copying",
                                   result |-> "none"]
                       ELSE [NoHandler EXCEPT !.pc = "returned", !.result = "dial"]]
    /\ UNCHANGED <<wire, rcvBuf, sent, reads, wrote, ctxDone, mainPc, loopPc, listener,
                   pListener, wg, offered, logged, clientConn, codecVars, relayVars, lockVars>>

\* a peer that is not this program's client adapter puts a query on stream s
\* whose name is not base32
WriteMalformed(s) ==
    /\ s \in Streams
    /\ adapters[s].client # <<>>
    /\ wire[s]["c2s"] = <<>> /\ rcvBuf[s]["c2s"] = <<>> /\ reads[s]["c2s"] = <<>>
    /\ wire' = [wire EXCEPT ![s]["c2s"] =
                   Pack(SetQuestion(CreateFQDN(SubBad, StreamDomain), "TXT"))]
    /\ UNCHANGED <<adapters, rcvBuf, sent, reads, wrote, codecVars, relayVars, procVars,
                   lockVars, handlers>>

\* io.Copy that goes on reading after an error of its source
CopyAfterReadRetrying(r) == "copying"

\* io.Copy after a Read of its source: an error ends the copy and is its result
CopyAfterRead(r) == IF r.err = "nil" THEN "copying" ELSE "failed"

\* the up copy of stream s reads the adapter
RelayUpRead(s) ==
    /\ s \in Streams
    /\ ConnOpen
    /\ handlers[s].pc = "relaying"
    /\ handlers[s].up = "copying"
    /\ serverDNSStreamReadCall(s, MaxBufLen)
    /\ handlers' = [handlers EXCEPT
                       ![s].up = CopyAfterRead(reads'[s]["c2s"][Len(reads'[s]["c2s"])])]
    /\ UNCHANGED <<codecVars, relayVars, procVars, lockVars>>

\* the up copy of stream s reads the stream after the connection was closed:
\* the substrate Read fails
RelayUpReadClosed(s) ==
    /\ s \in Streams
    /\ ~ConnOpen
    /\ handlers[s].pc = "relaying"
    /\ handlers[s].up = "copying"
    /\ handlers' = [handlers EXCEPT ![s].up = "connClosed"]
    /\ UNCHANGED <<codecVars, relayVars, streamVars, procVars, lockVars>>

\* the client has closed stream s and everything it sent was read: the
\* substrate Read of the up copy returns io.EOF
StreamEOF(s) ==
    /\ s \in Streams
    /\ handlers[s].pc = "relaying"
    /\ handlers[s].up = "copying"
    /\ wire[s]["c2s"] = <<>> /\ rcvBuf[s]["c2s"] = <<>>
    /\ sent[s]["c2s"] # <<>>
    /\ handlers' = [handlers EXCEPT ![s].up = "eof"]
    /\ UNCHANGED <<codecVars, relayVars, streamVars, procVars, lockVars>>

\* the down copy of stream s has read p from the target and writes it to the
\* adapter
RelayDownWrite(s, p) ==
    /\ ConnOpen
    /\ s \in Streams
    /\ handlers[s].pc = "relaying"
    /\ handlers[s].down = "copying"
    /\ serverDNSStreamWrite(s, p)

\* the target closes: the down copy of stream s ends
TargetEOF(s) ==
    /\ s \in Streams
    /\ handlers[s].pc = "relaying"
    /\ handlers[s].down = "copying"
    /\ handlers' = [handlers EXCEPT ![s].down = "eof"]
    /\ UNCHANGED <<codecVars, relayVars, streamVars, procVars, lockVars>>

\* both copies of stream s have ended: BiDirectionalCopy returns the error
\* of the up copy, if any; HandleStream wraps it, closes the target and the
\* adapter (deferred), handleStream logs it and closes the stream (deferred)
RelayReturn(s) ==
    /\ s \in Streams
    /\ handlers[s].pc = "relaying"
    /\ handlers[s].up # "copying"
    /\ handlers[s].down # "copying"
    /\ handlers' = [handlers EXCEPT
                       ![s].pc = "returned",
                       ![s].result = IF handlers[s].up = "eof" THEN "nil" ELSE "proxyError"]
    /\ UNCHANGED <<codecVars, relayVars, streamVars, procVars, lockVars>>

\* what the client and the target send while the streams are served
ServePayloads == {<<90>>}

NextServe ==
    \/ \E s \in TwoStreams : OpenStream(s)
    \/ \E s \in TwoStreams : \E ok \in BOOLEAN : ServeStream(s, ok)
    \/ \E s \in TwoStreams : \E d \in {"c2s"} : Deliver(s, d)
    \/ \E s \in TwoStreams : \E p \in ServePayloads : dnsStreamWrite(s, p)
    \/ \E s \in TwoStreams : WriteMalformed(s)
    \/ \E s \in TwoStreams : RelayUpRead(s)
    \/ \E s \in TwoStreams : RelayUpReadClosed(s)
    \/ \E s \in TwoStreams : StreamEOF(s)
    \/ \E s \in TwoStreams : \E p \in ServePayloads : RelayDownWrite(s, p)
    \/ \E s \in TwoStreams : TargetEOF(s)
    \/ \E s \in TwoStreams : RelayReturn(s)
    \/ ServerSignal
    \/ \E c \in {1} : ConnAcceptCancelled(c)
    \/ \E c \in {1} : ConnAcceptFailure(c)

(***************************************************************************)
(* The specifications.                                                     *)
(***************************************************************************)
\* the codec harness with its inputs drawn; no relay, no stream
CodecInit ==
    /\ InitCodec
    /\ InitRelay
    /\ callerPc = "handleStream"
    /\ InitStream
    /\ IdleProc
    /\ IdleLock
    /\ IdleHandlers

CodecSpec == CodecInit /\ [][NextCodec]_vars

\* one relayed connection, on the server or on the client; the codec harness is idle
RelayInit ==
    /\ IdleCodec
    /\ InitRelay
    /\ InitStream
    /\ IdleProc
    /\ IdleLock
    /\ IdleHandlers

RelaySpec == RelayInit /\ [][NextRelay]_vars

\* a goroutine that can take a step eventually takes it; nothing obliges the
\* peers of the endpoints to send, to finish or to close
RelayFairSpec ==
    /\ RelaySpec
    /\ WF_vars(RelayStart)
    /\ WF_vars(RelayRecv1)
    /\ WF_vars(RelayRecv2)
    /\ \A t \in Endpoints : WF_vars(CopyRead(t)) /\ WF_vars(CopyWrite(t)) /\ WF_vars(CopySend(t))

StreamInit ==
    /\ IdleCodec
    /\ InitRelay
    /\ callerPc = "handleStream"
    /\ InitStream
    /\ IdleProc
    /\ IdleLock
    /\ IdleHandlers

StreamSpec == StreamInit /\ [][NextStream]_vars

\* the payload budget is computed for two domain name lengths
SizeInit ==
    /\ InitSize
    /\ InitRelay
    /\ callerPc = "handleStream"
    /\ InitStream
    /\ IdleProc
    /\ IdleLock
    /\ IdleHandlers

SizeSpec == SizeInit /\ [][NextSize]_vars

\* one message arrives and is parsed; no relay, no stream
RxInit ==
    /\ InitRx
    /\ InitRelay
    /\ callerPc = "handleStream"
    /\ InitStream
    /\ IdleProc
    /\ IdleLock
    /\ IdleHandlers

RxSpec == RxInit /\ [][NextRx]_vars

\* the client process from the start of its accept loop to its exit
ShutdownInit ==
    /\ IdleCodec
    /\ callerPc = "notStarted"
    /\ RelayIdle
    /\ InitStream
    /\ InitClient
    /\ IdleLock
    /\ IdleHandlers

ShutdownSpec == ShutdownInit /\ [][NextShutdown]_vars

\* every goroutine of the client that can take a step eventually takes it;
\* nothing obliges a signal to arrive, a client to connect, an accept to fail
\* on an open listener, or the peers of a relay to send, to finish or to close
ShutdownFairSpec ==
    /\ ShutdownSpec
    /\ WF_vars(ProxyCloseListener \/ ProxyCloseNoListener)
    /\ WF_vars(ProxyCloseWait)
    /\ WF_vars(ClientRecvListenErr)
    /\ WF_vars(ClientReturn)
    /\ WF_vars(TCPListen \/ TCPListenFail)
    /\ WF_vars(TCPAccept)
    /\ WF_vars(TCPAcceptClosed)
    /\ WF_vars(OpenStreamOk \/ OpenStreamFail)
    /\ WF_vars(ClientCloseAdapter)
    /\ WF_vars(ClientCloseConn)
    /\ WF_vars(HandlerDone)
    /\ WF_vars(RelayStart)
    /\ WF_vars(RelayRecv1)
    /\ WF_vars(RelayRecv2)
    /\ \A t \in Endpoints : WF_vars(CopyRead(t)) /\ WF_vars(CopyWrite(t)) /\ WF_vars(CopySend(t))

\* the server process from the start of its accept loop
ServerInit ==
    /\ IdleCodec
    /\ callerPc = "notStarted"
    /\ RelayIdle
    /\ InitStream
    /\ InitServer
    /\ IdleLock
    /\ IdleHandlers

ServerSpec == ServerInit /\ [][NextServer]_vars

\* goroutines calling Connect, OpenStream and Close on one Client
LockInit ==
    /\ IdleCodec
    /\ callerPc = "notStarted"
    /\ RelayIdle
    /\ InitStream
    /\ IdleProc
    /\ IdleLock
    /\ IdleHandlers

LockSpec == LockInit /\ [][NextLock]_vars

\* one stream whose client adapter is given payloads of every kind of length,
\* over a substrate that takes the bytes or fails; nothing is read
NextWrite ==
    \/ \E s \in OneStream : OpenStream(s)
    \/ \E s \in OneStream : \E p \in WritePayloads : dnsStreamWrite(s, p)
    \/ \E s \in OneStream : \E p \in WritePayloads : dnsStreamWriteFails(s, p)

WriteInit ==
    /\ IdleCodec
    /\ InitRelay
    /\ callerPc = "handleStream"
    /\ InitStream
    /\ IdleProc
    /\ IdleLock
    /\ IdleHandlers

WriteSpec == WriteInit /\ [][NextWrite]_vars

\* one connection of the server and the relay pairs of its two streams
ServeInit ==
    /\ IdleCodec
    /\ callerPc = "notStarted"
    /\ RelayIdle
    /\ InitStreams(TwoStreams)
    /\ InitServing
    /\ IdleLock

ServeSpec == ServeInit /\ [][NextServe]_vars

\* two streams of one client connection, each with its relay pair at work
MuxInit ==
    /\ IdleCodec
    /\ InitRelay
    /\ callerPc = "handleStream"
    /\ InitStreams(TwoStreams)
    /\ IdleProc
    /\ IdleLock
    /\ IdleHandlers

MuxSpec == MuxInit /\ [][NextStream]_vars


(***************************************************************************)
(* The claims.                                                             *)
(***************************************************************************)
Ok(v) == [err |-> "nil", val |-> v]

\* C1: for every payload p, DecodeSubdomain(EncodeSubdomain(p)) succeeds and
\* returns exactly p; the empty payload encodes to the empty string, and the
\* empty string decodes to the empty payload.
C1_SubdomainRoundTrip ==
    /\ decoded # NotRun => decoded = Ok(data)
    /\ encoded # <<>> /\ data = <<>> => encoded[1] = <<>>
    /\ encoded # <<>> /\ data # <<>> => encoded[1] # <<>>

\* a payload of 40 bytes or more (two labels or more) has gone through both functions
C1_Witness ==
    /\ Len(data) >= 40
    /\ decoded.err = "nil"
    /\ \E i \in 1..Len(encoded[1]) : encoded[1][i] = Dot

\* C2: for every payload p and every tunnel domain,
\* ParseQueryData(CreateQuery(p, domain), domain) succeeds and returns exactly p;
\* the question name of the empty payload is the bare domain.
C2_QueryRoundTrip ==
    /\ queryData # NotRun => queryData = Ok(data)
    /\ query # <<>> /\ data = <<>> =>
          TrimSuffix(query[1].Question[1].Name, <<Dot>>) = domain

\* a payload of two labels has gone through CreateQuery and ParseQueryData under
\* a domain of three labels
C2_Witness ==
    /\ Len(data) >= 40
    /\ Len(domain) = 18
    /\ queryData.err = "nil"

\* C3: for every payload p, ParseResponseData(CreateResponse(q, p)) succeeds
\* and returns exactly p; the empty payload travels as NXDOMAIN with no answer.
C3_ResponseRoundTrip ==
    /\ responseData # NotRun => responseData = Ok(data)
    /\ response # <<>> /\ data = <<>> =>
          response[1].Rcode = "NameError" /\ response[1].Answer = <<>>
    /\ response # <<>> /\ data # <<>> => response[1].Rcode = "Success"

\* a payload of more than two TXT strings has gone through both functions
C3_Witness ==
    /\ Len(data) > 2 * TxtChunkSize
    /\ responseData.err = "nil"
    /\ Len(response[1].Answer[1].Txt) = 3

\* C4: BiDirectionalCopy returns only after both copy goroutines have ended,
\* and a copy goroutine about to send on errChan always finds a free slot.
C4_ReturnsAfterBothCopies ==
    /\ relayPc = "returned" => \A t \in Endpoints : copyPc[t] = "done"
    /\ \A t \in Endpoints : copyPc[t] = "send" => Len(errChan) < ErrChanCap

\* the relay has returned after data was copied in both directions
C4_Witness ==
    /\ relayPc = "returned"
    /\ endpoint["A"].written > 0
    /\ endpoint["B"].written > 0

Failing == {t \in Endpoints : IsFailure(copyErr[t])}

\* C5: the relay returns no error when both directions ended on end-of-input,
\* the failing direction's error when exactly one failed, and the error
\* reported first when both failed.
C5_RelayResult ==
    relayPc = "returned" =>
        /\ Failing = {} => relayResult = "nil"
        /\ \A t \in Endpoints : Failing = {t} => relayResult = copyErr[t]
        /\ Failing = Endpoints => relayResult = copyErr[reported[1]]

\* both directions failed, with different errors, and the relay has returned
C5_Witness ==
    /\ relayPc = "returned"
    /\ Failing = Endpoints
    /\ copyErr["A"] # copyErr["B"]
    /\ reported[1] = "B"

\* A reached end-of-input before any data, and B has produced no data
C6_Scenario ==
    /\ relayPc # "idle"
    /\ endpoint["A"].rd = "eof"
    /\ endpoint["A"].arrived = 0
    /\ endpoint["B"].arrived = 0

\* C6 as stated: in that scenario, once B has reached end-of-input or has been
\* closed, the relay returns no error.
C6_NoErrorOnceBEndsOrIsClosed ==
    C6_Scenario /\ endpoint["B"].rd \in {"eof", "closed"} /\ relayPc = "returned"
        => relayResult = "nil"

\* C6 as amended: in that scenario the relay eventually returns once B's read
\* ends: with no error when B reached end-of-input, and with B's read error
\* when B was closed under the pending read.
C6_TerminatesOnceBEnds ==
    /\ (C6_Scenario /\ endpoint["B"].rd = "eof")
          ~> (relayPc = "returned" /\ relayResult = "nil")
    /\ (C6_Scenario /\ endpoint["B"].rd = "closed")
          ~> (relayPc = "returned" /\ relayResult = ReadError("B"))

\* the scenario, B closed, the relay returned
C6_Witness ==
    /\ C6_Scenario
    /\ endpoint["B"].rd = "closed"
    /\ relayPc = "returned"
    /\ reported = <<"A", "B">>

\* goroutine t is blocked in the Read of io.Copy
BlockedReading(t) ==
    /\ copyPc[t] = "read"
    /\ endpoint[t].pending = 0
    /\ endpoint[t].rd = "open"

\* C7 as stated: the relay ends as soon as one direction has failed: it is never
\* found waiting for the other direction, blocked in its Read, after it has
\* received the failure.
C7_EndsOnFirstError ==
    ~ \E t \in Endpoints :
         /\ relayPc = "recv2"
         /\ IsFailure(err1)
         /\ copyPc[t] = "done"
         /\ BlockedReading(Other(t))

\* C7 as amended: while one direction has failed and the other has not ended,
\* the relay has not returned and no endpoint has been closed.
C7_WaitsForOtherDirection ==
    \A t \in Endpoints :
        IsFailure(copyErr[t]) /\ copyPc[Other(t)] \in {"read", "write", "send"}
            => /\ relayPc \in {"recv1", "recv2"}
               /\ \A e \in Endpoints : endpoint[e].closeCalls = 0

\* the read of A has failed, the relay has received that failure and still waits
\* for the direction that is blocked reading B; the caller has closed nothing
C7_Witness ==
    /\ callerPc = "clientRelaying"
    /\ relayPc = "recv2"
    /\ err1 = ReadError("A")
    /\ errChan = <<>>
    /\ BlockedReading("B")
    /\ endpoint["A"].closeCalls = 0

\* C8: no Close() is called on either endpoint while BiDirectionalCopy runs;
\* Close() calls come from the caller, after the relay returned (or without a
\* relay, when the dial failed).
C8_RelayNeverCloses ==
    /\ relayPc \in {"called", "recv1", "recv2"} =>
          \A e \in Endpoints : endpoint[e].closeCalls = 0
    /\ \A e \in Endpoints : endpoint[e].closeCalls > 0 =>
          /\ relayPc \in {"idle", "returned"}
          /\ callerPc \in {"closeAdapter", "closeStream", "done",
                            "clientCloseConn", "clientDone"}

\* the relay has returned from an execution with two errors, nothing closed yet
C8_Witness ==
    /\ relayPc = "returned"
    /\ callerPc = "relaying"
    /\ Failing = Endpoints
    /\ \A e \in Endpoints : endpoint[e].closeCalls = 0

\* C9: for both adapter variants the substrate stream is closed exactly once:
\* never more than one Close() reaches it, also when both Server.handleStream
\* and ServerProxy.HandleStream close it, and exactly one has reached it when
\* the handler of a relayed stream is done.
C9_SubstrateClosedOnce ==
    /\ endpoint[StreamEndpoint].closeCalls <= 1
    /\ callerPc \in {"done", "clientDone"} /\ relayPc = "returned" =>
          endpoint[StreamEndpoint].closeCalls = 1

\* C10: an adapter Read never takes a partial message for a whole one: each
\* Read ends with (the part that fits the buffer of) the payload of one whole
\* message that was written, or with a frame-too-large error.
C10_WholeMessagesOnly ==
    \A s \in Streams : \A d \in Directions : \A i \in 1..Len(reads[s][d]) :
        \/ reads[s][d][i].err = "FrameTooLarge"
        \/ /\ reads[s][d][i].err = "nil"
           /\ \E j \in 1..Len(sent[s][d]) : \E plen \in CallerBufLens :
                 reads[s][d][i].val = CopyInto(plen, sent[s][d][j])


\* C11: within one stream the payloads returned by the peer's reads are the
\* payloads written, in issue order, none lost, merged or duplicated: as long
\* as no read has failed, the i-th read returns (what the caller's buffer
\* holds of) the i-th payload written, and once the substrate has delivered
\* everything and the peer has read it all there are as many reads as writes.
C11_ReadsAreWritesInOrder ==
    \A s \in Streams : \A d \in Directions :
        (\A i \in 1..Len(reads[s][d]) : reads[s][d][i].err = "nil") =>
            /\ Len(reads[s][d]) <= Len(sent[s][d])
            /\ \A i \in 1..Len(reads[s][d]) : \E plen \in CallerBufLens :
                  reads[s][d][i].val = CopyInto(plen, sent[s][d][i])
            /\ wire[s][d] = <<>> /\ rcvBuf[s][d] = <<>> =>
                  Len(reads[s][d]) = Len(sent[s][d])

\* the buffers of a relay's copy loop hold any payload a message carries
RelayBufLens == {plen \in CallerBufLens : \A p \in StreamPayloads : Len(p) <= plen}

\* the bytes the reads of direction d of stream s have returned so far
Delivered(s, d) == ConcatAll([i \in 1..Len(reads[s][d]) |-> reads[s][d][i].val])

\* the bytes given to the writes of direction d of stream s so far
Sent(s, d) == ConcatAll(sent[s][d])

\* C12: two relay pairs on two streams of one client connection do not affect
\* each other's data: under any interleaving, once everything sent on a stream
\* has arrived and has been read, the bytes delivered on that stream are
\* exactly the bytes sent on it.
C12_DeliveredIsSentPerStream ==
    \A s \in Streams : \A d \in Directions :
        /\ wire[s][d] = <<>>
        /\ rcvBuf[s][d] = <<>>
        /\ \A i \in 1..Len(reads[s][d]) : reads[s][d][i].plen \in RelayBufLens
        => Delivered(s, d) = Sent(s, d)

\* what a read of a stream returns was written on that stream: each read that
\* succeeds returns (the part that fits the buffer of) a payload written on the
\* same stream in the same direction
StreamsIsolated ==
    \A s \in Streams : \A d \in Directions : \A i \in 1..Len(reads[s][d]) :
        reads[s][d][i].err = "nil" =>
            \E j \in 1..Len(sent[s][d]) : \E plen \in CallerBufLens :
                reads[s][d][i].val = CopyInto(plen, sent[s][d][j])

\* both streams carry different data in the same direction and both have been read
BothStreamsTransfer ==
    /\ Streams = TwoStreams
    /\ \E d \in Directions :
          /\ sent[1][d] # <<>> /\ sent[2][d] # <<>> /\ sent[1][d] # sent[2][d]
          /\ reads[1][d] # <<>> /\ reads[2][d] # <<>>

\* the dot-separated parts of a text (strings.Split(s, "."))
RECURSIVE SplitOnDots(_)
SplitOnDots(s) ==
    IF \A i \in 1..Len(s) : s[i] # Dot THEN <<s>>
    ELSE LET i == CHOOSE k \in 1..Len(s) : s[k] = Dot /\ \A j \in 1..(k - 1) : s[j] # Dot
         IN  <<SubSeq(s, 1, i - 1)>> \o SplitOnDots(SubSeq(s, i + 1, Len(s)))

\* the labels of a subdomain; the empty subdomain has none
LabelsOf(s) == IF s = <<>> THEN <<>> ELSE SplitOnDots(s)

\* C13: every label of EncodeSubdomain(p) has between 1 and 63 characters: the
\* labels are the consecutive 63-character segments of the lower-case base32
\* text of p, only the last label may be shorter, and no label is empty.
C13_LabelLengths ==
    encoded # <<>> =>
        LET labels == LabelsOf(encoded[1])
            text   == ToLower(EncodeToString(data))
        IN  /\ \A i \in 1..Len(labels) :
                  /\ Len(labels[i]) >= 1
                  /\ Len(labels[i]) <= MaxLabelLength
                  /\ i < Len(labels) => Len(labels[i]) = MaxLabelLength
                  /\ labels[i] = SubSeq(text, (i - 1) * MaxLabelLength + 1,
                                        Min(i * MaxLabelLength, Len(text)))
            /\ Len(labels) * MaxLabelLength >= Len(text)
            /\ data # <<>> => Len(labels) >= 1

\* a payload whose base32 text has 127 characters has been encoded: two full
\* labels and a last label of one character
C13_Witness ==
    /\ encoded # <<>>
    /\ Len(data) = 79
    /\ LET labels == LabelsOf(encoded[1])
       IN  /\ Len(labels) = 3
           /\ Len(labels[1]) = MaxLabelLength
           /\ Len(labels[2]) = MaxLabelLength
           /\ Len(labels[3]) = 1

\* C14: for every non-empty payload of n bytes, CreateResponse produces a
\* success-coded message with exactly one TXT record holding ceil(n/255)
\* strings, each of at most 255 bytes and all but the last of exactly 255
\* bytes, whose concatenation in order is the payload.
C14_TxtChunks ==
    response # <<>> /\ data # <<>> =>
        /\ response[1].Rcode = "Success"
        /\ Len(response[1].Answer) = 1
        /\ response[1].Answer[1].Rrtype = "TXT"
        /\ LET txt == response[1].Answer[1].Txt
           IN  /\ Len(txt) = (Len(data) + TxtChunkSize - 1) \div TxtChunkSize
               /\ \A i \in 1..Len(txt) :
                     /\ Len(txt[i]) >= 1
                     /\ Len(txt[i]) <= TxtChunkSize
                     /\ i < Len(txt) => Len(txt[i]) = TxtChunkSize
               /\ ConcatAll(txt) = data

\* the response to a payload of 600 bytes: strings of 255, 255 and 90 bytes
C14_Witness ==
    /\ response # <<>>
    /\ Len(data) = 600
    /\ LET txt == response[1].Answer[1].Txt
       IN  <<Len(txt[1]), Len(txt[2]), Len(txt[3])>> = <<255, 255, 90>> /\ Len(txt) = 3

\* C15: ParseResponseData returns an error, and never a payload, for every
\* response whose code is neither Success nor NXDOMAIN, whatever its answer
\* section contains; of the codes other than Success only NXDOMAIN gives an
\* empty payload without error.
C15_ErrorCodesFail ==
    rxResponseData # NotRun =>
        /\ rxMsg.Rcode \notin {"Success", "NameError"} =>
              rxResponseData.err # "nil" /\ rxResponseData.val = <<>>
        /\ rxMsg.Rcode = "NameError" => rxResponseData = Ok(<<>>)
        /\ rxMsg.Rcode # "Success" /\ rxResponseData.err = "nil" => rxMsg.Rcode = "NameError"

\* a ServerFailure response that carries a TXT answer has been parsed
C15_Witness ==
    /\ rxMsg.Rcode = "ServerFailure"
    /\ \E i \in 1..Len(rxMsg.Answer) : rxMsg.Answer[i].Rrtype = "TXT"
    /\ rxResponseData.err = "Response"

\* C16: CreateResponse yields an NXDOMAIN-coded message with an empty answer
\* section if and only if the payload is empty, and ParseResponseData of that
\* message yields the empty payload with no error.
C16_EmptyPayloadIsNameError ==
    /\ response # <<>> =>
          /\ (response[1].Rcode = "NameError") <=> (data = <<>>)
          /\ (response[1].Answer = <<>>) <=> (data = <<>>)
          /\ response[1].Rcode \in {"NameError", "Success"}
    /\ responseData # NotRun /\ data = <<>> => responseData = Ok(<<>>)

\* the response to the empty payload has been built and parsed
C16_Witness ==
    /\ data = <<>>
    /\ response # <<>>
    /\ response[1].Rcode = "NameError"
    /\ response[1].Answer = <<>>
    /\ responseData = Ok(<<>>)

\* a name without its root dot
Rootless(name) ==
    IF Len(name) > 0 /\ name[Len(name)] = Dot THEN SubSeq(name, 1, Len(name) - 1) ELSE name

\* the name is the domain, or ends with the domain right after a dot
UnderDomain(name, dom) ==
    LET n == Rootless(name)
    IN  \/ n = dom
        \/ /\ Len(n) > Len(dom)
           /\ SubSeq(n, Len(n) - Len(dom) + 1, Len(n)) = dom
           /\ n[Len(n) - Len(dom)] = Dot

\* what precedes the domain and its separating dot in a name under the domain
SubdomainPortion(name, dom) ==
    LET n == Rootless(name)
    IN  IF n = dom THEN <<>> ELSE SubSeq(n, 1, Len(n) - Len(dom) - 1)

\* C17: ParseQueryData returns a payload only for a message with exactly one
\* question, of type TXT, whose name is the tunnel domain or ends with it at a
\* label boundary; it fails with a format error when the number of questions
\* is not 1 or the type is not TXT, with a domain-mismatch error when the name
\* does not end with the domain, and returns the empty payload when the
\* subdomain portion is empty.
C17_QueryValidation ==
    rxQueryData # NotRun =>
        LET one   == Len(rxMsg.Question) = 1
            txt   == one /\ rxMsg.Question[1].Qtype = "TXT"
            under == txt /\ UnderDomain(rxMsg.Question[1].Name, domain)
        IN  /\ rxQueryData.err = "nil" => under
            /\ ~txt => rxQueryData.err = "Format"
            /\ txt /\ ~under => rxQueryData.err = "DomainMismatch"
            /\ under /\ SubdomainPortion(rxMsg.Question[1].Name, domain) = <<>> =>
                  rxQueryData = Ok(<<>>)
            /\ under => rxQueryData.err \in {"nil", "Decode"}
            /\ rxQueryData.err # "nil" => rxQueryData.val = <<>>

\* a TXT question whose name ends with the domain inside a label has been
\* refused with a domain mismatch
C17_Witness ==
    /\ Len(rxMsg.Question) = 1
    /\ rxMsg.Question[1].Qtype = "TXT"
    /\ rxMsg.Question[1].Name = SubFoo \o domain \o <<Dot>>
    /\ rxQueryData.err = "DomainMismatch"

\* floor(a / b) for b > 0 (\div of TLA+ rounds down)
Floor(a, b) == a \div b

\* the domain name lengths that leave room for a subdomain
SupportedLens == {d \in NameLens : MaxDomainLength - d - 2 >= 0}

\* C18: CalculateMaxPayloadSize(d) equals floor((253 - d - 2) * 5 / 8), is
\* monotonically non-increasing in d, and is never negative for the domain
\* name lengths the codec supports.
C18_FloorMonotoneNonNegative ==
    /\ \A i \in 1..Len(maxPayloads) :
          /\ maxPayloads[i] = Floor((MaxDomainLength - domainLens[i] - 2) * 5, 8)
          /\ domainLens[i] \in SupportedLens => maxPayloads[i] >= 0
    /\ Len(maxPayloads) = 2 => maxPayloads[2] <= maxPayloads[1]

\* C18 as amended: for the domain name lengths the codec supports (d <= 251)
\* CalculateMaxPayloadSize(d) equals floor((253 - d - 2) * 5 / 8) and is never
\* negative; for longer names the quotient is rounded toward zero, not down
\* (0 for d = 252); the result is monotonically non-increasing in d.
C18_FloorWhereSupported ==
    /\ \A i \in 1..Len(maxPayloads) :
          LET d == domainLens[i]
          IN  /\ d \in SupportedLens =>
                    /\ maxPayloads[i] = Floor((MaxDomainLength - d - 2) * 5, 8)
                    /\ maxPayloads[i] >= 0
              /\ d \notin SupportedLens =>
                    /\ maxPayloads[i] = -Floor((d + 2 - MaxDomainLength) * 5, 8)
                    /\ maxPayloads[i] <= 0
    /\ Len(maxPayloads) = 2 => maxPayloads[2] <= maxPayloads[1]

\* the budget of the default domain "tunnel.example.com" (18 characters) and of
\* a domain name of 252 characters have been computed: 145 and 0 bytes
C18_Witness ==
    /\ domainLens = <<18, 252>>
    /\ maxPayloads = <<145, 0>>

\* C19: after the cancellation signal every in-flight relay unwinds and the
\* shutdown of the client, TCPProxy.Close, which waits for all in-flight
\* connection handlers, eventually completes.
C19_ShutdownCompletes ==
    ctxDone["client"] ~> (mainPc["client"] \in {"proxyClosed", "exited"})

\* C20: an accept error that is not caused by the cancellation signal is
\* logged and the accept loop goes on; only the cancellation signal ends an
\* accept loop that has started accepting.
C20_OnlyCancellationEndsAcceptLoops ==
    /\ loopPc["quic"] \in {"off", "start", "failed", "accepting", "returnedCtx"}
    /\ loopPc["quic"] = "returnedCtx" => ctxDone["server"]
    /\ \A c \in DOMAIN srvConns :
          /\ srvConns[c].pc \in {"accepting", "returnedCtx"}
          /\ srvConns[c].pc = "returnedCtx" => ctxDone["server"]

\* the wire units of the responses of stream s that have been written and
\* not yet read by the client adapter
ResponseUnits(s) == rcvBuf[s]["s2c"] \o wire[s]["s2c"]

\* C24: every response the server adapter writes carries one Question, named
\* with the tunnel domain and an empty subdomain, and its TXT record, when
\* present, has the same name, whatever the names of the queries read earlier
\* on the stream.
C24_ResponseNamesBareDomain ==
    \A s \in Streams :
        \A i \in 1..Len(ResponseUnits(s)) :
            LET u == ResponseUnits(s)[i]
            IN  /\ u.sec = "hdr" => u.body.qd = 1
                /\ u.sec \in {"qd", "an"} =>
                      /\ u.body.Name = StreamDomain \o <<Dot>>
                      /\ ExtractSubdomain(u.body.Name, StreamDomain) = [err |-> "nil", val |-> <<>>]

\* the server adapter has read a query that carries a payload, so one whose
\* name has a subdomain, and a response with a TXT record is on its way
C24_Witness ==
    \E s \in Streams :
        /\ \E i \in 1..Len(reads[s]["c2s"]) :
              reads[s]["c2s"][i].err = "nil" /\ reads[s]["c2s"][i].val # <<>>
        /\ \E i \in 1..Len(ResponseUnits(s)) : ResponseUnits(s)[i].sec = "an"

\* the name of the query without the dot that ends it
QueryName == SubSeq(query[1].Question[1].Name, 1, Len(query[1].Question[1].Name) - 1)

\* C25: for a payload no longer than CalculateMaxPayloadSize(len(domain)) the
\* name CreateQuery builds, the encoded subdomain with the dots between its
\* labels, a dot and the domain, is at most 253 characters long.
C25_BudgetSuffices ==
    (query # <<>> /\ Len(data) <= CalculateMaxPayloadSize(Len(domain)))
        => Len(QueryName) <= MaxDomainLength

\* C26: an adapter read delivers the whole payload of the message it
\* consumed: when one message was written in a direction, one read consumed
\* it without error and nothing is left to read, the payload the caller got,
\* in a buffer of whatever length, is the payload that was written.
C26_ReadDeliversWholePayload ==
    \A s \in Streams : \A d \in Directions :
        (/\ Len(sent[s][d]) = 1
         /\ wire[s][d] = <<>>
         /\ rcvBuf[s][d] = <<>>
         /\ Len(reads[s][d]) = 1
         /\ reads[s][d][1].err = "nil")
            => reads[s][d][1].val = sent[s][d][1]

\* the wire units of the queries of stream s that have been written and not
\* yet read by the server adapter
QueryUnits(s) == rcvBuf[s]["c2s"] \o wire[s]["c2s"]

\* the positions of the message headers among the units
Headers(units) == {i \in 1..Len(units) : units[i].sec = "hdr"}

\* the payload carried by the last message among the units
LastQueryPayload(units) ==
    LET i == CHOOSE h \in Headers(units) : \A g \in Headers(units) : g <= h
    IN  IF units[i].body.qd # 1 \/ Len(units) < i + 1 THEN [err |-> "Format", val |-> <<>>]
        ELSE ParseQueryData([EmptyMsg EXCEPT !.Question = <<units[i + 1].body>>], StreamDomain)

\* C22: a Write of the client adapter, for a payload of any length, either
\* puts one query carrying the payload on the substrate stream and returns
\* the length of the payload, or fails with the error of the substrate and
\* returns 0; there is one query on the stream per accepted payload.
C22_WriteAllOrTransportError ==
    \A s \in Streams :
        LET w == wrote[s]["c2s"]
        IN  /\ Cardinality(Headers(QueryUnits(s))) = Len(sent[s]["c2s"])
            /\ w.err # "notrun" =>
                  \/ /\ w.err = "nil"
                     /\ w.n = Len(w.p)
                     /\ Headers(QueryUnits(s)) # {}
                     /\ LastQueryPayload(QueryUnits(s)) = [err |-> "nil", val |-> w.p]
                  \/ /\ w.err = "io"
                     /\ w.n = 0

\* a payload longer than the budget of the domain was written and accepted
C22_Witness ==
    \E s \in Streams :
        /\ wrote[s]["c2s"].err = "nil"
        /\ Len(wrote[s]["c2s"].p) > CalculateMaxPayloadSize(Len(StreamDomain))
        /\ wrote[s]["c2s"].n = Len(wrote[s]["c2s"].p)

\* goroutine t is inside a call, between taking the lock and releasing it
Holding(t) == calls[t].pc = "body"

\* C23: while a Connect or a Close holds the connection handle no other call
\* of Connect, OpenStream or Close is inside; and an OpenStream that finds the
\* client not connected, never connected or closed, returns an error and no
\* adapter (never connected: the error of line 65).  Several OpenStream calls
\* can be inside together: see the witness.
C23_ConnectCloseExclusive ==
    /\ [](\A t \in Callers :
            (Holding(t) /\ calls[t].op \in {"Connect", "Close"})
                => /\ mu.w /\ mu.r = 0
                   /\ \A u \in Callers \ {t} : ~Holding(u))
    /\ [](\A t \in Callers : (Holding(t) /\ calls[t].op = "OpenStream") => ~mu.w /\ mu.r > 0)
    /\ [][\A t \in Callers :
            (Holding(t) /\ calls[t].op = "OpenStream" /\ calls'[t].pc = "idle")
                => /\ clientConn = "nil" => calls'[t].res = "errNotConnected"
                   /\ clientConn = "closed" => calls'[t].res = "err"
                   /\ calls'[t].res = "adapter" => clientConn = "open"]_vars

\* two OpenStream calls are inside at the same time, after an earlier
\* OpenStream on the unconnected client has failed
C23_Witness ==
    \E t \in Callers : \E u \in Callers \ {t} : \E v \in Callers \ {t, u} :
        /\ Holding(t) /\ calls[t].op = "OpenStream"
        /\ Holding(u) /\ calls[u].op = "OpenStream"
        /\ mu.r = 2
        /\ calls[v].res = "errNotConnected"


\* the reads of the server adapter of stream s, by the up copy of its relay
UpReads(s) == reads[s]["c2s"]

\* the last read of the up copy of stream s returned an error
UpReadFailed(s) == UpReads(s) # <<>> /\ UpReads(s)[Len(UpReads(s))].err # "nil"

\* C21: a malformed or undecodable message read on one stream is returned as
\* an error to the reader of that stream, the relay copy, which does not read
\* again, and the handler of that stream reports it when the relay returns;
\* it ends the relay of that stream only: the step in which the copy fails,
\* and the step in which the handler returns, leave the connection and every
\* other stream as they were, a copy fails only by an error read on its own
\* stream, and the connection is closed only by its own accept loop.
C21_MalformedEndsOnlyItsStream ==
    /\ [](\A s \in Streams : \A i \in 1..Len(UpReads(s)) :
            UpReads(s)[i].err # "nil"
                => /\ i = Len(UpReads(s))
                   /\ UpReads(s)[i].val = <<>>
                   /\ handlers[s].up = "failed"
                   /\ handlers[s].pc = "returned" => handlers[s].result = "proxyError")
    /\ [](\A s \in Streams :
            /\ handlers[s].up = "failed" => UpReadFailed(s)
            /\ handlers[s].up = "connClosed" => ~ConnOpen)
    /\ [](~ConnOpen => ctxDone["server"] \/ logged["stream"] > 0)
    /\ [][\A s \in Streams :
            (UpReadFailed(s)' /\ (handlers'[s] # handlers[s] \/ reads'[s] # reads[s]))
                => /\ srvConns' = srvConns
                   /\ ctxDone' = ctxDone
                   /\ \A t \in Streams \ {s} :
                         /\ handlers'[t] = handlers[t]
                         /\ adapters'[t] = adapters[t]
                         /\ wire'[t] = wire[t]
                         /\ rcvBuf'[t] = rcvBuf[t]
                         /\ reads'[t] = reads[t]]_vars

\* the relay of stream 1 has returned with the error of a query that does not
\* decode, the connection is open, and the relay of stream 2, still at work,
\* has read a payload from its stream and written one to it
C21_Witness ==
    /\ Streams = TwoStreams
    /\ handlers[1].pc = "returned" /\ handlers[1].result = "proxyError"
    /\ UpReadFailed(1)
    /\ ConnOpen
    /\ handlers[2].pc = "relaying" /\ handlers[2].up = "copying"
    /\ Len(UpReads(2)) = 1
    /\ UpReads(2)[1].err = "nil" /\ UpReads(2)[1].val = <<90>>
    /\ wrote[2]["s2c"].err = "nil" /\ wrote[2]["s2c"].n = 1

=============================================================================
